---- MODULE Spec2Model ----
(***************************************************************************)
(* Model of the message dispatch core of vrpn-rs:                          *)
(*   src/src/type_dispatcher.rs  (MsgCallbackEntry, CallbackCollection,    *)
(*                                TypeDispatcher).                          *)
(* The dispatcher is one record-valued variable; every public method is    *)
(* an operator from (dispatcher, arguments) to (dispatcher, result, log of *)
(* handler invocations), and one action applies it.                        *)
(***************************************************************************)
EXTENDS Integers, Sequences, FiniteSets, TLC

\* ------------------------------------------------------------------ bounds

\* Width in bits of types::IdType (i32 in the source), scaled down.
IdBits == 4

\* Total number of add_handler calls explored by Spec.
MaxAdds == 3

\* Total number of add_handler calls explored by SpecCap.
MaxCapAdds == 1

\* Number of handlers kept registered at once by SpecWrap.
MaxLive == 2

\* Number of endpoints SpecAccept lets the listener bring in.
MaxEndpoints == 3

\* Number of frames the endpoint of SpecConn holds unread or unapplied.
MaxIncoming == 2

\* Total number of add_handler calls explored by SpecConn.
MaxConnAdds == 2

\* Number of frames the send buffer of a reliable channel takes before it is full.
SendCapacity == 2

\* ------------------------------------------------- integers of IdType width

IdTypeModulus == 2 ^ IdBits

IdTypeMax == 2 ^ (IdBits - 1) - 1

IdTypeMin == 0 - 2 ^ (IdBits - 1)

\* `n as IdType`: two's complement truncation to IdBits bits.
AsIdType(n) == ((n - IdTypeMin) % IdTypeModulus) + IdTypeMin

\* types::MAX_VEC_USIZE, the cap on the length of the vectors.
MAX_VEC_USIZE == IdTypeMax - 2

\* -------------------------------------------------------- values and names

\* Option<T>: None is the empty sequence, Some(v) a sequence of length one.
None == <<>>

Some(v) == <<v>>

\* Result values, one shape for all operations:
\*   tag  : "Ok" | "Err" | "Panic"
\*   kind : error kind, or "Found" / "NewMapping" / "Handle" / "Unit"
\*   id   : the LocalId, the inner handle, or the value of InvalidId.
Ok(kind, id) == [tag |-> "Ok", kind |-> kind, id |-> id]

Err(kind, id) == [tag |-> "Err", kind |-> kind, id |-> id]

Panic == [tag |-> "Panic", kind |-> "overflow", id |-> 0]

GENERIC == "GENERIC"

CONTROL == "CONTROL"

GOT_FIRST_CONNECTION == "GOT_FIRST_CONNECTION"

GOT_CONNECTION == "GOT_CONNECTION"

DROPPED_CONNECTION == "DROPPED_CONNECTION"

DROPPED_LAST_CONNECTION == "DROPPED_LAST_CONNECTION"

\* HandlerCode, and the third outcome of Handler::handle, an error.
ContinueProcessing == "ContinueProcessing"

RemoveThisHandler == "RemoveThisHandler"

HandlerError == "HandlerError"

\* ------------------------------------------------------- MsgCallbackEntry

\* id_filter_matches(filter, id): no filter, or the filter equals the id.
id_filter_matches(filter, id) == filter = None \/ filter = Some(id)

\* MsgCallbackEntry::new.  handler is the code the boxed handler returns;
\* seq is history: the number of adds made to the collection before this one.
MsgCallbackEntry_new(handle, handler, sender_filter, seq) ==
  [handle |-> handle, handler |-> handler, sender_filter |-> sender_filter,
   seq |-> seq]

\* MsgCallbackEntry::call without the sender filter.
MsgCallbackEntry_call_unfiltered(entry, msg) ==
  [invoked |-> TRUE,
   ret |-> IF entry.handler = HandlerError
           THEN Err("HandlerError", 0)
           ELSE Ok(entry.handler, 0)]

\* MsgCallbackEntry::call: [invoked, ret]; invoked says the handler ran.
MsgCallbackEntry_call(entry, msg) ==
  IF id_filter_matches(entry.sender_filter, msg.sender)
  THEN [invoked |-> TRUE,
        ret |-> IF entry.handler = HandlerError
                THEN Err("HandlerError", 0)
                ELSE Ok(entry.handler, 0)]
  ELSE [invoked |-> FALSE, ret |-> Ok(ContinueProcessing, 0)]

\* ------------------------------------------------------ CallbackCollection

\* CallbackCollection::new.  count is history: the adds made so far.
CallbackCollection_new(name) ==
  [name |-> name, callbacks |-> <<>>, next_handle |-> 0, count |-> 0]

\* CallbackCollection::add.  checks is the build's overflow-checks setting:
\* `next_handle += 1` at the maximum panics when set and wraps otherwise.
CallbackCollection_add(c, handler, sender, checks) ==
  IF Len(c.callbacks) > MAX_VEC_USIZE
  THEN [c |-> c, ret |-> Err("TooManyHandlers", 0)]
  ELSE LET handle == c.next_handle
           pushed == Append(c.callbacks,
                       Some(MsgCallbackEntry_new(handle, handler, sender, c.count)))
       IN IF c.next_handle = IdTypeMax /\ checks
          THEN [c |-> [c EXCEPT !.callbacks = pushed, !.count = c.count + 1],
                ret |-> Panic]
          ELSE [c |-> [c EXCEPT !.callbacks = pushed,
                                !.next_handle = AsIdType(c.next_handle + 1),
                                !.count = c.count + 1],
                ret |-> Ok("Handle", handle)]

\* Vec::swap_remove(i): the last element takes the place of the removed one.
VecSwapRemove(v, i) ==
  IF i = Len(v) THEN SubSeq(v, 1, Len(v) - 1)
  ELSE [SubSeq(v, 1, Len(v) - 1) EXCEPT ![i] = v[Len(v)]]

\* Vec::remove(i): the later elements shift left.
VecRemove(v, i) == SubSeq(v, 1, i - 1) \o SubSeq(v, i + 1, Len(v))

\* iter().position(..): index of the first slot holding the handle, 0 if none.
Position(callbacks, handle) ==
  LET hits == {i \in 1..Len(callbacks) :
                 callbacks[i] # None /\ callbacks[i][1].handle = handle}
  IN IF hits = {} THEN 0 ELSE CHOOSE i \in hits : \A j \in hits : i <= j

\* CallbackCollection::remove.
CallbackCollection_remove(c, handle) ==
  LET i == Position(c.callbacks, handle)
  IN IF i # 0
     THEN [c |-> [c EXCEPT !.callbacks = VecRemove(c.callbacks, i)],
           ret |-> Ok("Unit", 0)]
     ELSE [c |-> c, ret |-> Err("HandlerNotFound", 0)]

\* The loop of CallbackCollection::call from slot i on.  key names the
\* collection in the log of invocations.
RECURSIVE CallFrom(_, _, _, _, _)
CallFrom(callbacks, msg, i, key, log) ==
  IF i > Len(callbacks)
  THEN [callbacks |-> callbacks, log |-> log, ret |-> Ok("Unit", 0)]
  ELSE IF callbacks[i] = None
  THEN CallFrom(callbacks, msg, i + 1, key, log)
  ELSE LET entry == callbacks[i][1]
           r == MsgCallbackEntry_call(entry, msg)
           log2 == IF r.invoked
                   THEN Append(log, [coll |-> key, entry |-> entry])
                   ELSE log
       IN IF r.ret.tag = "Err"
          THEN [callbacks |-> callbacks, log |-> log2, ret |-> r.ret]
          ELSE IF r.ret.kind = RemoveThisHandler
          THEN CallFrom([callbacks EXCEPT ![i] = None], msg, i + 1, key, log2)
          ELSE CallFrom(callbacks, msg, i + 1, key, log2)

\* CallbackCollection::call without `entry.take()`.
CallbackCollection_call_keeps(c, msg, key, log) ==
  LET r == CallFrom(c.callbacks, msg, 1, key, log)
  IN [c |-> c, log |-> r.log, ret |-> r.ret]

\* CallbackCollection::call.
CallbackCollection_call(c, msg, key, log) ==
  LET r == CallFrom(c.callbacks, msg, 1, key, log)
  IN [c |-> [c EXCEPT !.callbacks = r.callbacks], log |-> r.log, ret |-> r.ret]

\* --------------------------------------------------------- TypeDispatcher

\* determine_id_range(id, len): "BelowZero", "AboveArray" or "InArray".
determine_id_range(id, len) ==
  IF id < 0 THEN "BelowZero" ELSE IF id >= len THEN "AboveArray" ELSE "InArray"

\* message_type_into_index: Ok carries the (0-based) index.
message_type_into_index(message_type, len) ==
  IF determine_id_range(message_type, len) = "InArray"
  THEN Ok("Index", message_type)
  ELSE Err("InvalidId", message_type)

\* HashMap::insert.
MapInsert(m, k, v) == [x \in DOMAIN m \cup {k} |-> IF x = k THEN v ELSE m[x]]

\* The dispatcher before TypeDispatcher::new registers anything.
EmptyDispatcher ==
  [types |-> <<>>, types_by_name |-> <<>>,
   generic_callbacks |-> CallbackCollection_new(GENERIC),
   senders |-> <<>>, senders_by_name |-> <<>>]

\* TypeDispatcher::get_type_callbacks_mut, the lookup: Ok or InvalidId.
get_type_callbacks_mut(d, type_id_filter) ==
  IF type_id_filter = None THEN Ok("Generic", 0)
  ELSE message_type_into_index(type_id_filter[1], Len(d.types))

\* The collection get_type_callbacks_mut borrows (when it returned Ok).
Borrowed(d, type_id_filter) ==
  IF type_id_filter = None THEN d.generic_callbacks
  ELSE d.types[type_id_filter[1] + 1]

\* Writing through the borrow of get_type_callbacks_mut.
WriteBack(d, type_id_filter, c) ==
  IF type_id_filter = None THEN [d EXCEPT !.generic_callbacks = c]
  ELSE [d EXCEPT !.types[type_id_filter[1] + 1] = c]

\* add_type numbering from one: the ID is the length after the push.
add_type_from_one(d, name) ==
  IF Len(d.types) > MAX_VEC_USIZE
  THEN [d |-> d, ret |-> Err("TooManyMappings", 0)]
  ELSE LET pushed == Append(d.types, CallbackCollection_new(name))
           id == AsIdType(Len(pushed))
       IN [d |-> [d EXCEPT !.types = pushed,
                           !.types_by_name = MapInsert(d.types_by_name, name, id)],
           ret |-> Ok("NewMapping", id)]

\* TypeDispatcher::add_type.
add_type(d, name) ==
  IF Len(d.types) > MAX_VEC_USIZE
  THEN [d |-> d, ret |-> Err("TooManyMappings", 0)]
  ELSE LET pushed == Append(d.types, CallbackCollection_new(name))
           id == AsIdType(Len(pushed) - 1)
       IN [d |-> [d EXCEPT !.types = pushed,
                           !.types_by_name = MapInsert(d.types_by_name, name, id)],
           ret |-> Ok("NewMapping", id)]

\* add_sender without the check of the length against the cap.
add_sender_uncapped(d, name) ==
  LET pushed == Append(d.senders, name)
      id == AsIdType(Len(pushed) - 1)
  IN [d |-> [d EXCEPT !.senders = pushed,
                      !.senders_by_name = MapInsert(d.senders_by_name, name, id)],
      ret |-> Ok("NewMapping", id)]

\* TypeDispatcher::add_sender.
add_sender(d, name) ==
  IF Len(d.senders) > IdTypeMax - 2
  THEN [d |-> d, ret |-> Err("TooManyMappings", 0)]
  ELSE LET pushed == Append(d.senders, name)
           id == AsIdType(Len(pushed) - 1)
       IN [d |-> [d EXCEPT !.senders = pushed,
                           !.senders_by_name = MapInsert(d.senders_by_name, name, id)],
           ret |-> Ok("NewMapping", id)]

\* TypeDispatcher::get_type_id.
get_type_id(d, name) ==
  IF name \in DOMAIN d.types_by_name THEN Some(d.types_by_name[name]) ELSE None

\* TypeDispatcher::get_sender_id.
get_sender_id(d, name) ==
  IF name \in DOMAIN d.senders_by_name THEN Some(d.senders_by_name[name]) ELSE None

\* register_type without the lookup: every call allocates.
register_type_always_adds(d, name) == add_type(d, name)

\* TypeDispatcher::register_type.
register_type(d, name) ==
  IF get_type_id(d, name) # None
  THEN [d |-> d, ret |-> Ok("Found", get_type_id(d, name)[1])]
  ELSE add_type(d, name)

\* register_sender without the lookup of the name.
register_sender_always_adds(d, name) == add_sender(d, name)

\* TypeDispatcher::register_sender.
register_sender(d, name) ==
  IF get_sender_id(d, name) # None
  THEN [d |-> d, ret |-> Ok("Found", get_sender_id(d, name)[1])]
  ELSE add_sender(d, name)

\* TypeDispatcher::new.
TypeDispatcher_new ==
  LET d1 == register_sender(EmptyDispatcher, CONTROL).d
      d2 == register_type(d1, GOT_FIRST_CONNECTION).d
      d3 == register_type(d2, GOT_CONNECTION).d
      d4 == register_type(d3, DROPPED_CONNECTION).d
  IN register_type(d4, DROPPED_LAST_CONNECTION).d

\* TypeDispatcher::add_handler; the handle is (message_type_filter, ret.id).
add_handler(d, handler, message_type_filter, sender_filter, checks) ==
  LET g == get_type_callbacks_mut(d, message_type_filter)
  IN IF g.tag = "Err" THEN [d |-> d, ret |-> g]
     ELSE LET r == CallbackCollection_add(Borrowed(d, message_type_filter),
                                          handler, sender_filter, checks)
          IN [d |-> WriteBack(d, message_type_filter, r.c), ret |-> r.ret]

\* MessageTypeIdentifier: UserMessageName(name) or SystemMessageId(id).
UserMessageName(name) == [kind |-> "UserMessageName", name |-> name, id |-> 0]

SystemMessageId(id) == [kind |-> "SystemMessageId", name |-> "", id |-> id]

\* TypeDispatcher::add_typed_handler for a body type whose MESSAGE_IDENTIFIER is
\* identifier; message_type is the type the handler was added under, if it got
\* that far, and the handle is (message_type, ret.id).
add_typed_handler(d, handler, identifier, sender_filter, checks) ==
  LET reg == IF identifier.kind = "UserMessageName"
             THEN register_type(d, identifier.name)
             ELSE [d |-> d, ret |-> Ok("SystemMessageId", identifier.id)]
  IN IF reg.ret.tag = "Err"
     THEN [d |-> d, ret |-> reg.ret, message_type |-> None]
     ELSE LET r == add_handler(reg.d, handler, Some(reg.ret.id), sender_filter, checks)
          IN [d |-> r.d, ret |-> r.ret, message_type |-> Some(reg.ret.id)]

\* TypeDispatcher::remove_handler, handler_handle = <<message_type, inner>>.
remove_handler(d, handler_handle) ==
  LET message_type == handler_handle[1]
      inner == handler_handle[2]
      g == get_type_callbacks_mut(d, message_type)
  IN IF g.tag = "Err" THEN [d |-> d, ret |-> g]
     ELSE LET r == CallbackCollection_remove(Borrowed(d, message_type), inner)
          IN [d |-> WriteBack(d, message_type, r.c), ret |-> r.ret]

\* TypeDispatcher::call with the type's collection called before the generic one.
call_type_first(d, msg) ==
  LET index == message_type_into_index(msg.message_type, Len(d.types))
  IN IF index.tag = "Err" THEN [d |-> d, log |-> <<>>, ret |-> index]
     ELSE LET m == CallbackCollection_call(d.types[index.id + 1], msg,
                                           Some(index.id), <<>>)
              d1 == [d EXCEPT !.types[index.id + 1] = m.c]
          IN IF m.ret.tag = "Err" THEN [d |-> d1, log |-> m.log, ret |-> m.ret]
             ELSE LET g == CallbackCollection_call(d1.generic_callbacks, msg, None,
                                                   m.log)
                  IN [d |-> [d1 EXCEPT !.generic_callbacks = g.c],
                      log |-> g.log, ret |-> g.ret]

\* TypeDispatcher::call with the generic collection called before msg.type is
\* validated.
call_generic_first(d, msg) ==
  LET index == message_type_into_index(msg.message_type, Len(d.types))
      g == CallbackCollection_call(d.generic_callbacks, msg, None, <<>>)
      d1 == [d EXCEPT !.generic_callbacks = g.c]
  IN IF g.ret.tag = "Err" THEN [d |-> d1, log |-> g.log, ret |-> g.ret]
     ELSE IF index.tag = "Err" THEN [d |-> d1, log |-> g.log, ret |-> index]
     ELSE LET m == CallbackCollection_call(d1.types[index.id + 1], msg,
                                           Some(index.id), g.log)
          IN [d |-> [d1 EXCEPT !.types[index.id + 1] = m.c],
              log |-> m.log, ret |-> m.ret]

\* TypeDispatcher::call without the `?` on the generic collection's result.
call_ignoring_generic_error(d, msg) ==
  LET index == message_type_into_index(msg.message_type, Len(d.types))
  IN IF index.tag = "Err" THEN [d |-> d, log |-> <<>>, ret |-> index]
     ELSE LET g == CallbackCollection_call(d.generic_callbacks, msg, None, <<>>)
              d1 == [d EXCEPT !.generic_callbacks = g.c]
              m == CallbackCollection_call(d1.types[index.id + 1], msg,
                                           Some(index.id), g.log)
          IN [d |-> [d1 EXCEPT !.types[index.id + 1] = m.c], log |-> m.log,
              ret |-> IF g.ret.tag = "Err" THEN g.ret ELSE m.ret]

\* TypeDispatcher::call; log lists the handlers invoked, in order.
call(d, msg) ==
  LET index == message_type_into_index(msg.message_type, Len(d.types))
  IN IF index.tag = "Err" THEN [d |-> d, log |-> <<>>, ret |-> index]
     ELSE LET g == CallbackCollection_call(d.generic_callbacks, msg, None, <<>>)
              d1 == [d EXCEPT !.generic_callbacks = g.c]
          IN IF g.ret.tag = "Err" THEN [d |-> d1, log |-> g.log, ret |-> g.ret]
             ELSE LET m == CallbackCollection_call(d1.types[index.id + 1], msg,
                                                   Some(index.id), g.log)
                  IN [d |-> [d1 EXCEPT !.types[index.id + 1] = m.c],
                      log |-> m.log, ret |-> m.ret]

\* ------------------------------------------------------ TranslationTables

\* One table of TranslationTables: the entries by local ID, each {name,
\* remote_id}, and the index from remote ID to local ID.
TranslationTable_new == [entries |-> <<>>, by_remote |-> <<>>]

\* TranslationTables::new.
TranslationTables_new ==
  [senders |-> TranslationTable_new, types |-> TranslationTable_new]

\* add_remote_entry(name, remote_id, local_id): MismatchedName if the name and
\* the local ID disagree with an existing binding.
add_remote_entry(table, name, remote_id, local_id) ==
  IF \/ local_id \in DOMAIN table.entries /\ table.entries[local_id].name # name
     \/ \E l \in DOMAIN table.entries :
          l # local_id /\ table.entries[l].name = name
  THEN [table |-> table, ret |-> Err("MismatchedName", 0)]
  ELSE [table |->
          [entries |-> MapInsert(table.entries, local_id,
                                 [name |-> name, remote_id |-> Some(remote_id)]),
           by_remote |-> MapInsert(table.by_remote, remote_id, local_id)],
        ret |-> Ok("Unit", 0)]

\* add_local_id(name, local_id): TRUE if newly inserted; FALSE, and no change,
\* if the name is known, under this local ID or under another, or the local ID
\* belongs to another name.
add_local_id(table, name, local_id) ==
  IF \/ \E l \in DOMAIN table.entries : table.entries[l].name = name
     \/ local_id \in DOMAIN table.entries
  THEN [table |-> table, inserted |-> FALSE]
  ELSE [table |-> [table EXCEPT !.entries =
                     MapInsert(table.entries, local_id,
                               [name |-> name, remote_id |-> None])],
        inserted |-> TRUE]

\* table.iter(): the local IDs of the entries, in local-ID order.
RECURSIVE InOrder(_)
InOrder(ids) ==
  IF ids = {} THEN <<>>
  ELSE LET least == CHOOSE i \in ids : \A j \in ids : i <= j
       IN <<least>> \o InOrder(ids \ {least})

\* EndpointIp::map_to_local_id on one table.
map_to_local_id(table, remote_id) ==
  IF remote_id \in DOMAIN table.by_remote THEN Some(table.by_remote[remote_id])
  ELSE None

\* TranslationTables::find_by_local_id on one table.
find_by_local_id(table, local_id) ==
  IF local_id \in DOMAIN table.entries THEN Some(table.entries[local_id]) ELSE None

\* ------------------------------------------------- frames and SystemMessage

\* What the framing codec produces from the reliable stream: a message for the
\* dispatcher, one of the system messages, or a codec error.
Frame(kind, name, which, message_type, sender) ==
  [kind |-> kind, name |-> name, which |-> which,
   message_type |-> message_type, sender |-> sender]

Message(message_type, sender) == Frame("Message", "", 0, message_type, sender)

SenderDescription(name, which) == Frame("SenderDescription", name, which, 0, 0)

TypeDescription(name, which) == Frame("TypeDescription", name, which, 0, 0)

UdpDescription == Frame("UdpDescription", "", 0, 0, 0)

LogDescription == Frame("LogDescription", "", 0, 0, 0)

DisconnectMessage == Frame("DisconnectMessage", "", 0, 0, 0)

InvalidFrame == Frame("InvalidFrame", "", 0, 0, 0)

\* Poll results.
Ready == Ok("Ready", 0)

NotReady == Ok("NotReady", 0)

\* --------------------------------------------------------------- EndpointIp

\* The framed reliable channel: the frames that arrived and were not read yet,
\* whether the stream is still open for reading, whether a flush succeeds, and
\* the frames in the send buffer, each with its class of service.
EndpointChannel_new ==
  [incoming |-> <<>>, read |-> "open", sink |-> "ok", outgoing |-> <<>>]

\* EndpointIp::new that is handed a low-latency channel as well.
EndpointIp_new_with_low_latency(id) ==
  [translation |-> TranslationTables_new,
   reliable_channel |-> EndpointChannel_new,
   low_latency_channel |-> Some("udp"),
   system_rx |-> <<>>,
   id |-> id]

\* EndpointIp::new; id tells the endpoints of one connection apart.
EndpointIp_new(id) ==
  [translation |-> TranslationTables_new,
   reliable_channel |-> EndpointChannel_new,
   low_latency_channel |-> None,
   system_rx |-> <<>>,
   id |-> id]

\* EndpointIp::send_system_change: system_tx.unbounded_send(message).
send_system_change(ep, message) ==
  [ep EXCEPT !.system_rx = Append(ep.system_rx, message)]

\* channel.poll_complete(): the flush of the pending writes.
poll_complete(channel) ==
  IF channel.sink = "error" THEN Err("Io", 0) ELSE NotReady

\* poll_and_dispatch leaving on the stream the frame whose handler failed.
RECURSIVE poll_and_dispatch_keeps_failed(_, _, _)
poll_and_dispatch_keeps_failed(ep, d, log) ==
  LET channel == ep.reliable_channel
  IN IF channel.incoming = <<>>
     THEN [ep |-> ep, d |-> d, log |-> log,
           ret |-> IF channel.read = "open" THEN NotReady ELSE Ready]
     ELSE LET frame == Head(channel.incoming)
              rest == [ep EXCEPT !.reliable_channel.incoming = Tail(channel.incoming)]
          IN IF frame.kind = "Message"
             THEN LET r == call(d, [message_type |-> frame.message_type,
                                    sender |-> frame.sender])
                  IN IF r.ret.tag = "Err"
                     THEN [ep |-> ep, d |-> r.d, log |-> log \o r.log, ret |-> r.ret]
                     ELSE poll_and_dispatch_keeps_failed(rest, r.d, log \o r.log)
             ELSE IF frame.kind = "InvalidFrame"
             THEN [ep |-> [ep EXCEPT !.reliable_channel.incoming = <<>>,
                                     !.reliable_channel.read = "failed"],
                   d |-> d, log |-> log, ret |-> Ready]
             ELSE poll_and_dispatch_keeps_failed(send_system_change(rest, frame), d, log)

\* poll_and_dispatch(endpoint, channel, dispatcher): reads the frames the codec
\* can produce without blocking; a message goes to dispatcher.call, whose error
\* is returned; a system frame goes to send_system_change; a codec error ends
\* the stream.  Ready(()) when the stream has ended, NotReady when it would block.
RECURSIVE poll_and_dispatch(_, _, _)
poll_and_dispatch(ep, d, log) ==
  LET channel == ep.reliable_channel
  IN IF channel.incoming = <<>>
     THEN [ep |-> ep, d |-> d, log |-> log,
           ret |-> IF channel.read = "open" THEN NotReady ELSE Ready]
     ELSE LET frame == Head(channel.incoming)
              rest == [ep EXCEPT !.reliable_channel.incoming = Tail(channel.incoming)]
          IN IF frame.kind = "Message"
             THEN LET r == call(d, [message_type |-> frame.message_type,
                                    sender |-> frame.sender])
                  IN IF r.ret.tag = "Err"
                     THEN [ep |-> rest, d |-> r.d, log |-> log \o r.log, ret |-> r.ret]
                     ELSE poll_and_dispatch(rest, r.d, log \o r.log)
             ELSE IF frame.kind = "InvalidFrame"
             THEN [ep |-> [ep EXCEPT !.reliable_channel.incoming = <<>>,
                                     !.reliable_channel.read = "failed"],
                   d |-> d, log |-> log, ret |-> Ready]
             ELSE poll_and_dispatch(send_system_change(rest, frame), d, log)

\* The SenderDescription arm with the two IDs passed in each other's place.
apply_description_swapped(ep, d, msg) ==
  LET sender == msg.kind = "SenderDescription"
      r == IF sender THEN register_sender(d, msg.name) ELSE register_type(d, msg.name)
      table == IF sender THEN ep.translation.senders ELSE ep.translation.types
  IN IF r.ret.tag = "Err" THEN [ep |-> ep, d |-> d, ret |-> r.ret]
     ELSE LET a == add_remote_entry(table, msg.name, r.ret.id, msg.which)
          IN [ep |-> IF sender THEN [ep EXCEPT !.translation.senders = a.table]
                     ELSE [ep EXCEPT !.translation.types = a.table],
              d |-> r.d, ret |-> a.ret]

\* The SenderDescription and TypeDescription arms of poll_endpoint: register the
\* name, then add_remote_entry(name, RemoteId(which), LocalId(local_id)).
apply_description(ep, d, msg) ==
  LET sender == msg.kind = "SenderDescription"
      r == IF sender THEN register_sender(d, msg.name) ELSE register_type(d, msg.name)
      table == IF sender THEN ep.translation.senders ELSE ep.translation.types
  IN IF r.ret.tag = "Err" THEN [ep |-> ep, d |-> d, ret |-> r.ret]
     ELSE LET a == add_remote_entry(table, msg.name, msg.which, r.ret.id)
          IN [ep |-> IF sender THEN [ep EXCEPT !.translation.senders = a.table]
                     ELSE [ep EXCEPT !.translation.types = a.table],
              d |-> r.d, ret |-> a.ret]

\* The `while let Async::Ready(Some(msg)) = self.system_rx.poll()` loop of
\* poll_endpoint; applied lists the messages the loop took off the queue.
RECURSIVE apply_system_messages(_, _, _)
apply_system_messages(ep, d, applied) ==
  IF ep.system_rx = <<>>
  THEN [ep |-> ep, d |-> d, applied |-> applied, ret |-> Ok("Unit", 0)]
  ELSE LET msg == Head(ep.system_rx)
           rest == [ep EXCEPT !.system_rx = Tail(ep.system_rx)]
       IN IF msg.kind \in {"SenderDescription", "TypeDescription"}
          THEN LET a == apply_description(rest, d, msg)
               IN IF a.ret.tag = "Err"
                  THEN [ep |-> a.ep, d |-> a.d, applied |-> Append(applied, msg),
                        ret |-> a.ret]
                  ELSE apply_system_messages(a.ep, a.d, Append(applied, msg))
          ELSE apply_system_messages(rest, d, Append(applied, msg))

\* poll_endpoint from `if closed` on, after the loop over system_rx returned s.
report_readiness(p, s) ==
  [ep |-> s.ep, d |-> s.d, log |-> p.log, applied |-> s.applied,
   ret |-> IF s.ret.tag = "Err" THEN s.ret
           ELSE IF p.ret = Ready THEN Ready ELSE NotReady]

\* poll_endpoint taking an error of poll_and_dispatch for the end of the
\* stream instead of returning it.
after_dispatch_swallows_error(p) ==
  report_readiness([p EXCEPT !.ret = IF p.ret.tag = "Err" THEN Ready ELSE p.ret],
                   apply_system_messages(p.ep, p.d, <<>>))

\* poll_endpoint from the `?` on poll_and_dispatch on; p is what it returned.
after_dispatch(p) ==
  IF p.ret.tag = "Err"
  THEN [ep |-> p.ep, d |-> p.d, log |-> p.log, applied |-> <<>>, ret |-> p.ret]
  ELSE report_readiness(p, apply_system_messages(p.ep, p.d, <<>>))

\* EndpointIp::poll_endpoint; a poll_complete() that succeeds has written the
\* send buffer out.
poll_endpoint(ep, d) ==
  IF poll_complete(ep.reliable_channel).tag = "Err"
  THEN [ep |-> ep, d |-> d, log |-> <<>>, applied |-> <<>>,
        ret |-> poll_complete(ep.reliable_channel)]
  ELSE after_dispatch(poll_and_dispatch([ep EXCEPT !.reliable_channel.outgoing = <<>>],
                                        d, <<>>))

\* ------------------------------------------------- EndpointIp, outbound

\* ClassOfService::from(ServiceFlags::RELIABLE); a class of service is the set
\* of its flags, {"LOW_LATENCY"} for ServiceFlags::{"LOW_LATENCY"}.into().
RELIABLE == {"RELIABLE"}

\* Description::new(id, name) as a message: the frame that tells the peer the
\* name of our local sender or type ID.
Description(sender, id, name) ==
  IF sender THEN SenderDescription(name, id) ELSE TypeDescription(name, id)

\* EndpointIp::buffer_generic_message, and Endpoint::buffer_message, which
\* hands it the typed message as a generic one.  channel.start_send(msg) fails
\* if the sink failed, returns AsyncSink::NotReady if the send buffer is full,
\* and else has put the message into the buffer.
buffer_generic_message(ep, msg, class) ==
  IF "RELIABLE" \in class \/ ep.low_latency_channel = None
  THEN IF ep.reliable_channel.sink = "error"
       THEN [ep |-> ep, ret |-> Err("OtherMessage", 0)]
       ELSE IF Len(ep.reliable_channel.outgoing) >= SendCapacity
       THEN [ep |-> ep, ret |-> Err("OtherMessage", 0)]
       ELSE [ep |-> [ep EXCEPT !.reliable_channel.outgoing =
                       Append(@, [msg |-> msg, class |-> class])],
             ret |-> Ok("Unit", 0)]
  ELSE [ep |-> ep, ret |-> Panic]

\* The table of the senders or of the types.
TableOf(ep, sender) ==
  IF sender THEN ep.translation.senders ELSE ep.translation.types

\* EndpointIp::pack_description.
pack_description(ep, sender, local_id) ==
  IF find_by_local_id(TableOf(ep, sender), local_id) = None
  THEN [ep |-> ep, ret |-> Err("InvalidId", local_id)]
  ELSE buffer_generic_message(
         ep,
         Description(sender, local_id,
                     find_by_local_id(TableOf(ep, sender), local_id)[1].name),
         RELIABLE)

\* EndpointIp::new_local_id.
new_local_id(ep, sender, name, local_id) ==
  LET a == add_local_id(TableOf(ep, sender), name, local_id)
  IN IF a.inserted
     THEN pack_description(IF sender THEN [ep EXCEPT !.translation.senders = a.table]
                           ELSE [ep EXCEPT !.translation.types = a.table],
                           sender, local_id)
     ELSE [ep |-> ep, ret |-> Ok("Unit", 0)]

\* The `messages` vector pack_all_descriptions builds from one table.
DescriptionsOf(table, sender) ==
  [n \in 1..Cardinality(DOMAIN table.entries) |->
     Description(sender, InOrder(DOMAIN table.entries)[n],
                 table.entries[InOrder(DOMAIN table.entries)[n]].name)]

\* `for msg in messages.into_iter() { self.buffer_generic_message(msg, RELIABLE)?; }`
RECURSIVE buffer_each(_, _)
buffer_each(ep, messages) ==
  IF messages = <<>> THEN [ep |-> ep, ret |-> Ok("Unit", 0)]
  ELSE IF buffer_generic_message(ep, Head(messages), RELIABLE).ret.tag # "Ok"
  THEN buffer_generic_message(ep, Head(messages), RELIABLE)
  ELSE buffer_each(buffer_generic_message(ep, Head(messages), RELIABLE).ep, Tail(messages))

\* pack_all_descriptions with the block of the types in front of the block of
\* the senders.
pack_all_descriptions_types_first(ep) ==
  IF buffer_each(ep, DescriptionsOf(ep.translation.types, FALSE)).ret.tag # "Ok"
  THEN buffer_each(ep, DescriptionsOf(ep.translation.types, FALSE))
  ELSE buffer_each(buffer_each(ep, DescriptionsOf(ep.translation.types, FALSE)).ep,
                   DescriptionsOf(ep.translation.senders, TRUE))

\* EndpointIp::pack_all_descriptions.
pack_all_descriptions(ep) ==
  IF buffer_each(ep, DescriptionsOf(ep.translation.senders, TRUE)).ret.tag # "Ok"
  THEN buffer_each(ep, DescriptionsOf(ep.translation.senders, TRUE))
  ELSE buffer_each(buffer_each(ep, DescriptionsOf(ep.translation.senders, TRUE)).ep,
                   DescriptionsOf(ep.translation.types, FALSE))

\* ----------------------------------------------------- ConnectionIpAcceptor

\* ConnectionIpAcceptor::new: a listener with no socket waiting; ready counts
\* the sockets incoming.poll() has to hand out, ended says it then yields None.
ConnectionIpAcceptor_new == [ready |-> 0, ended |-> FALSE]

\* <ConnectionIpAcceptor as Stream>::poll.  alive: self.connection.upgrade() is
\* Some.  spawned counts the handshake tasks the loop spawned.
ConnectionIpAcceptor_poll(a, alive) ==
  IF ~alive THEN [a |-> a, spawned |-> 0, ret |-> Ok("ReadyNone", 0)]
  ELSE [a |-> [a EXCEPT !.ready = 0], spawned |-> a.ready,
        ret |-> IF a.ended THEN Ok("ReadyNone", 0) ELSE NotReady]

\* The closure of the handshake task: epoints.push(Some(EndpointIp::new(stream))).
install_endpoint(epoints, ep) == Append(epoints, Some(ep))

\* ------------------------------------------------------------- ConnectionIp

RECURSIVE sweep(_, _, _, _, _, _)

\* The body of the loop with `got_not_ready = true` written as an assignment of
\* the poll's result.
polled_last_wins(endpoints, i, got_not_ready, polls, log, r) ==
  IF r.ret.tag = "Err"
  THEN [endpoints |-> [endpoints EXCEPT ![i] = Some(r.ep)], d |-> r.d,
        polls |-> Append(polls, [slot |-> i, id |-> r.ep.id, ret |-> r.ret,
                                 applied |-> r.applied]),
        log |-> log \o r.log, ret |-> r.ret]
  ELSE sweep([endpoints EXCEPT ![i] = Some(r.ep)], r.d, i + 1, r.ret = NotReady,
             Append(polls, [slot |-> i, id |-> r.ep.id, ret |-> r.ret,
                            applied |-> r.applied]),
             log \o r.log)

\* The body of the loop of poll_endpoints for the endpoint in slot i, after
\* its poll_endpoint returned r: `?`, then the match on poll_result.
polled(endpoints, i, got_not_ready, polls, log, r) ==
  IF r.ret.tag = "Err"
  THEN [endpoints |-> [endpoints EXCEPT ![i] = Some(r.ep)], d |-> r.d,
        polls |-> Append(polls, [slot |-> i, id |-> r.ep.id, ret |-> r.ret,
                                 applied |-> r.applied]),
        log |-> log \o r.log, ret |-> r.ret]
  ELSE sweep([endpoints EXCEPT ![i] = Some(r.ep)], r.d, i + 1,
             got_not_ready \/ r.ret = NotReady,
             Append(polls, [slot |-> i, id |-> r.ep.id, ret |-> r.ret,
                            applied |-> r.applied]),
             log \o r.log)

\* The `for ep in endpoints.iter_mut().flatten()` loop of poll_endpoints from
\* slot i on, and the result after it; polls lists the endpoints polled, with
\* what poll_endpoint returned.
sweep(endpoints, d, i, got_not_ready, polls, log) ==
  IF i > Len(endpoints)
  THEN [endpoints |-> endpoints, d |-> d, polls |-> polls, log |-> log,
        ret |-> IF got_not_ready THEN NotReady ELSE Ok("ReadySome", 0)]
  ELSE IF endpoints[i] = None
  THEN sweep(endpoints, d, i + 1, got_not_ready, polls, log)
  ELSE polled(endpoints, i, got_not_ready, polls, log,
              poll_endpoint(endpoints[i][1], d))

\* poll_endpoints after the acceptor, if there is one, was polled until it
\* returned a.ret, having spawned a.spawned handshake tasks.
after_acceptor(server_acceptor, a, r) ==
  IF a.ret # NotReady
  THEN [server_acceptor |-> server_acceptor, spawned |-> a.spawned,
        endpoints |-> r.endpoints, d |-> r.d, polls |-> <<>>, log |-> <<>>,
        ret |-> a.ret]
  ELSE [server_acceptor |-> server_acceptor, spawned |-> a.spawned,
        endpoints |-> r.endpoints, d |-> r.d, polls |-> r.polls,
        log |-> r.log, ret |-> r.ret]

\* ConnectionIp::poll_endpoints: the acceptor, if there is one, is polled until
\* it is NotReady (it has then spawned a task per waiting socket) or Ready(None);
\* then the endpoints are swept.  The connection is alive while it is polled.
poll_endpoints(server_acceptor, endpoints, d) ==
  IF server_acceptor = None
  THEN after_acceptor(None, [spawned |-> 0, ret |-> NotReady],
                      sweep(endpoints, d, 1, FALSE, <<>>, <<>>))
  ELSE IF ConnectionIpAcceptor_poll(server_acceptor[1], TRUE).ret # NotReady
  THEN after_acceptor(Some(ConnectionIpAcceptor_poll(server_acceptor[1], TRUE).a),
                      ConnectionIpAcceptor_poll(server_acceptor[1], TRUE),
                      [endpoints |-> endpoints, d |-> d])
  ELSE after_acceptor(Some(ConnectionIpAcceptor_poll(server_acceptor[1], TRUE).a),
                      ConnectionIpAcceptor_poll(server_acceptor[1], TRUE),
                      sweep(endpoints, d, 1, FALSE, <<>>, <<>>))

\* ------------------------------------------------------ tasks and mutexes

\* A mutex is <<name, id>>: server_acceptor of the connection, server_tcp of
\* the acceptor, endpoints and dispatcher of the core, each with id 0, and
\* reliable_channel of the endpoint with the id.

\* The tasks that run on the executor's threads: two that poll the connection,
\* one that polls an acceptor that is a stream of its own, the closure of a
\* handshake task, and one that sends a message through the connection.
Pollers == {"poll1", "poll2"}

Tasks == Pollers \cup {"acceptor", "handshake", "sender"}

\* A task outside the code modelled; i, got_not_ready and polls are the locals
\* of poll_endpoints.
Idle == [at |-> "idle", i |-> 0, got_not_ready |-> FALSE, polls |-> <<>>]

\* ------------------------------------------------------------------ state

VARIABLES
  locks,            \* for each task, the mutexes whose guards it holds
  pc,               \* for each task, where it is in its code, and the locals
                    \* of a poll_endpoints it is in
  dispatcher,       \* the TypeDispatcher
  overflow_checks,  \* the build: "on" panics on integer overflow, "off" wraps;
                    \* "either" until the first overflow shows which it is
  panicked,         \* the thread that owned the dispatcher panicked
  last,             \* the last operation: its name, arguments and result
  invoked,          \* the handlers the last call() invoked, in order
  issued,           \* history: handle -> number of add_handler calls that returned it
  gone,             \* history: the handlers that were registered under h when
                    \* remove_handler(h) succeeded
  retired,          \* history: the handlers that returned RemoveThisHandler
  connection,       \* the ConnectionIp: alive until its last Arc is dropped, and
                    \* its server_acceptor
  endpoints,        \* the shared Vec<Option<EndpointIp>> of the connection's core
  acceptor,         \* a ConnectionIpAcceptor polled as a stream of its own
  handshakes,       \* the handshake tasks in flight, each holding endpoints
  history           \* history: endpoints created; the endpoints that returned
                    \* Ready(()) to a sweep, that applied a DisconnectMessage,
                    \* that returned an error of a handler; the local IDs
                    \* new_local_id inserted, and for each the number of
                    \* descriptions new_local_id buffered

conn_vars == <<locks, pc, connection, endpoints, acceptor, handshakes, history>>

vars ==
  <<locks, pc, dispatcher, overflow_checks, panicked, last, invoked, issued, gone, retired,
    connection, endpoints, acceptor, handshakes, history>>

\* The entries registered in callbacks (the non-empty slots), in slot order.
RECURSIVE Registered(_)
Registered(callbacks) ==
  IF callbacks = <<>> THEN <<>>
  ELSE IF Head(callbacks) = None THEN Registered(Tail(callbacks))
  ELSE <<Head(callbacks)[1]>> \o Registered(Tail(callbacks))

\* The set of elements of a sequence.
Range(s) == {s[i] : i \in 1..Len(s)}

\* The name a handler goes by in gone and retired: its collection (None for the
\* generic one, Some(i) for types[i]) and its place in the order of adds.
Id(key, entry) == [coll |-> key, seq |-> entry.seq]

\* All add_handler calls that pushed an entry.
TotalAdds(d) ==
  LET S[i \in 0..Len(d.types)] ==
        IF i = 0 THEN d.generic_callbacks.count ELSE S[i - 1] + d.types[i].count
  IN S[Len(d.types)]

\* The state after TypeDispatcher::new().
InitDispatcher ==
  /\ dispatcher = TypeDispatcher_new
  /\ overflow_checks = "either"
  /\ panicked = FALSE
  /\ last = [op |-> "new"]
  /\ invoked = <<>>
  /\ issued = <<>>
  /\ gone = {}
  /\ retired = {}

\* The connection after ConnectionIp::new_server (no endpoint) or new_client
\* (one endpoint, on the stream handed in); no acceptor exists yet.
InitConnection(initial) ==
  /\ locks = [t \in Tasks |-> {}]
  /\ pc = [t \in Tasks |-> Idle]
  /\ connection = [alive |-> TRUE, server_acceptor |-> None]
  /\ endpoints = [i \in 1..initial |-> Some(EndpointIp_new(i))]
  /\ acceptor = None
  /\ handshakes = 0
  /\ history = [created |-> initial, reported |-> {}, disconnected |-> {},
                failed |-> {}, inserted |-> {}, described |-> <<>>]

\* A new dispatcher, in a connection made by new_server.
Init == InitDispatcher /\ InitConnection(0)

\* dispatcher.register_type(name)
DoRegisterType(name) ==
  LET r == register_type(dispatcher, name)
  IN /\ ~panicked
     /\ dispatcher' = r.d
     /\ last' = [op |-> "register_type", name |-> name, ret |-> r.ret]
     /\ invoked' = <<>>
     /\ UNCHANGED <<overflow_checks, panicked, issued, gone, retired, conn_vars>>

\* dispatcher.register_sender(name)
DoRegisterSender(name) ==
  LET r == register_sender(dispatcher, name)
  IN /\ ~panicked
     /\ dispatcher' = r.d
     /\ last' = [op |-> "register_sender", name |-> name, ret |-> r.ret]
     /\ invoked' = <<>>
     /\ UNCHANGED <<overflow_checks, panicked, issued, gone, retired, conn_vars>>

\* `next_handle += 1` of this add_handler call overflows.
Overflows(d, message_type_filter) ==
  /\ get_type_callbacks_mut(d, message_type_filter).tag = "Ok"
  /\ Len(Borrowed(d, message_type_filter).callbacks) <= MAX_VEC_USIZE
  /\ Borrowed(d, message_type_filter).next_handle = IdTypeMax

\* dispatcher.add_handler(handler, message_type_filter, sender_filter), in a
\* build the overflows seen so far allow.
DoAddHandler(handler, message_type_filter, sender_filter) ==
  \E checks \in IF overflow_checks = "either" THEN BOOLEAN
                ELSE {overflow_checks = "on"} :
    LET r == add_handler(dispatcher, handler, message_type_filter, sender_filter,
                         checks)
        handle == <<message_type_filter, r.ret.id>>
    IN /\ ~panicked
       /\ dispatcher' = r.d
       /\ overflow_checks' = IF Overflows(dispatcher, message_type_filter)
                             THEN (IF checks THEN "on" ELSE "off")
                             ELSE overflow_checks
       /\ panicked' = (r.ret.tag = "Panic")
       /\ last' = [op |-> "add_handler",
                   message_type_filter |-> message_type_filter, ret |-> r.ret]
       /\ invoked' = <<>>
       /\ issued' = IF r.ret.tag = "Ok"
                    THEN MapInsert(issued, handle,
                           IF handle \in DOMAIN issued THEN issued[handle] + 1 ELSE 1)
                    ELSE issued
       /\ UNCHANGED <<gone, retired, conn_vars>>

\* dispatcher.add_typed_handler::<T>(handler, sender_filter), where
\* T::Item::MESSAGE_IDENTIFIER is identifier.
DoAddTypedHandler(handler, identifier, sender_filter) ==
  \E checks \in IF overflow_checks = "either" THEN BOOLEAN
                ELSE {overflow_checks = "on"} :
    LET r == add_typed_handler(dispatcher, handler, identifier, sender_filter, checks)
        handle == <<r.message_type, r.ret.id>>
        overflows == /\ r.message_type # None
                     /\ identifier.kind = "UserMessageName"
                     /\ Overflows(register_type(dispatcher, identifier.name).d,
                                  r.message_type)
    IN /\ ~panicked
       /\ dispatcher' = r.d
       /\ overflow_checks' = IF overflows THEN (IF checks THEN "on" ELSE "off")
                             ELSE overflow_checks
       /\ panicked' = (r.ret.tag = "Panic")
       /\ last' = [op |-> "add_typed_handler", identifier |-> identifier,
                   message_type |-> r.message_type, ret |-> r.ret]
       /\ invoked' = <<>>
       /\ issued' = IF r.ret.tag = "Ok"
                    THEN MapInsert(issued, handle,
                           IF handle \in DOMAIN issued THEN issued[handle] + 1 ELSE 1)
                    ELSE issued
       /\ UNCHANGED <<gone, retired, conn_vars>>

\* The handlers registered under handler_handle.
Under(d, handler_handle) ==
  IF get_type_callbacks_mut(d, handler_handle[1]).tag = "Ok"
  THEN {e \in Range(Registered(Borrowed(d, handler_handle[1]).callbacks)) :
          e.handle = handler_handle[2]}
  ELSE {}

\* dispatcher.remove_handler(handler_handle)
DoRemoveHandler(handler_handle) ==
  LET r == remove_handler(dispatcher, handler_handle)
  IN /\ ~panicked
     /\ dispatcher' = r.d
     /\ last' = [op |-> "remove_handler", handler_handle |-> handler_handle,
                 ret |-> r.ret]
     /\ invoked' = <<>>
     /\ gone' = IF r.ret.tag = "Ok"
                THEN gone \cup {Id(handler_handle[1], e) :
                                  e \in Under(dispatcher, handler_handle)}
                ELSE gone
     /\ UNCHANGED <<overflow_checks, panicked, issued, retired, conn_vars>>

\* dispatcher.call(&msg)
DoCall(msg) ==
  LET r == call(dispatcher, msg)
  IN /\ ~panicked
     /\ dispatcher' = r.d
     /\ last' = [op |-> "call", msg |-> msg, ret |-> r.ret]
     /\ invoked' = r.log
     /\ retired' = retired \cup
                   {Id(x.coll, x.entry) :
                      x \in {y \in Range(r.log) : y.entry.handler = RemoveThisHandler}}
     /\ UNCHANGED <<overflow_checks, panicked, issued, gone, conn_vars>>

\* connection.poll_endpoints(): the step of a call that returned r.
PollEndpointsStep(r) ==
  LET polls == Range(r.polls)
  IN /\ connection.alive /\ ~panicked
     /\ connection' = [connection EXCEPT !.server_acceptor = r.server_acceptor]
     /\ endpoints' = r.endpoints
     /\ dispatcher' = r.d
     /\ handshakes' = handshakes + r.spawned
     /\ last' = [op |-> "poll_endpoints", ret |-> r.ret, polls |-> r.polls]
     /\ invoked' = r.log
     /\ retired' = retired \cup
                   {Id(x.coll, x.entry) :
                      x \in {y \in Range(r.log) : y.entry.handler = RemoveThisHandler}}
     /\ history' =
          [history EXCEPT
             !.reported = @ \cup {x.id : x \in {y \in polls : y.ret = Ready}},
             !.disconnected =
                @ \cup {x.id : x \in {y \in polls :
                                        DisconnectMessage \in Range(y.applied)}},
             !.failed = @ \cup {x.id : x \in {y \in polls :
                                                y.ret = Err("HandlerError", 0)}}]
     /\ UNCHANGED <<locks, pc, overflow_checks, panicked, issued, gone, acceptor>>

DoPollEndpoints ==
  PollEndpointsStep(poll_endpoints(connection.server_acceptor, endpoints, dispatcher))

\* endpoints[i].new_local_id(name, local_id), for a sender or a type.
DoNewLocalId(i, sender, name, local_id) ==
  LET ep == endpoints[i][1]
      r == new_local_id(ep, sender, name, local_id)
      key == <<sender, local_id>>
      before == IF key \in DOMAIN history.described THEN history.described[key] ELSE 0
  IN /\ connection.alive /\ endpoints[i] # None
     /\ endpoints' = [endpoints EXCEPT ![i] = Some(r.ep)]
     /\ last' = [op |-> "new_local_id", sender |-> sender, name |-> name,
                 local_id |-> local_id, ret |-> r.ret]
     /\ history' =
          [history EXCEPT
             !.inserted = IF TableOf(r.ep, sender) # TableOf(ep, sender)
                          THEN @ \cup {key} ELSE @,
             !.described =
                IF r.ep.reliable_channel.outgoing = ep.reliable_channel.outgoing
                THEN @
                ELSE MapInsert(@, key,
                               before + Len(r.ep.reliable_channel.outgoing)
                                      - Len(ep.reliable_channel.outgoing))]
     /\ invoked' = <<>>
     /\ UNCHANGED <<locks, pc, dispatcher, overflow_checks, panicked, issued, gone, retired,
                    connection, acceptor, handshakes>>

\* endpoints[i].pack_all_descriptions()
DoPackAllDescriptions(i) ==
  LET r == pack_all_descriptions(endpoints[i][1])
  IN /\ connection.alive /\ endpoints[i] # None
     /\ endpoints' = [endpoints EXCEPT ![i] = Some(r.ep)]
     /\ last' = [op |-> "pack_all_descriptions", ret |-> r.ret]
     /\ invoked' = <<>>
     /\ UNCHANGED <<locks, pc, dispatcher, overflow_checks, panicked, issued, gone, retired,
                    connection, acceptor, handshakes, history>>

\* endpoints[i].buffer_generic_message(msg, class)
DoBufferGenericMessage(i, msg, class) ==
  LET r == buffer_generic_message(endpoints[i][1], msg, class)
  IN /\ connection.alive /\ endpoints[i] # None
     /\ endpoints' = [endpoints EXCEPT ![i] = Some(r.ep)]
     /\ last' = [op |-> "buffer_generic_message", msg |-> msg, class |-> class,
                 ret |-> r.ret]
     /\ invoked' = <<>>
     /\ UNCHANGED <<locks, pc, dispatcher, overflow_checks, panicked, issued, gone, retired,
                    connection, acceptor, handshakes, history>>

\* The peer of endpoints[i] sent a frame: the codec has it for the next read.
FrameArrives(i, frame) ==
  /\ connection.alive
  /\ endpoints[i] # None
  /\ endpoints[i][1].reliable_channel.read = "open"
  /\ endpoints' = [endpoints EXCEPT ![i][1].reliable_channel.incoming =
                                      Append(@, frame)]
  /\ last' = [op |-> "frame_arrives"]
  /\ invoked' = <<>>
  /\ UNCHANGED <<locks, pc, dispatcher, overflow_checks, panicked, issued, gone, retired,
                 connection, acceptor, handshakes, history>>

\* The peer of endpoints[i] closed the stream: reads end after the frames that
\* arrived.
StreamEnds(i) ==
  /\ connection.alive
  /\ endpoints[i] # None
  /\ endpoints[i][1].reliable_channel.read = "open"
  /\ endpoints' = [endpoints EXCEPT ![i][1].reliable_channel.read = "ended"]
  /\ last' = [op |-> "stream_ends"]
  /\ invoked' = <<>>
  /\ UNCHANGED <<locks, pc, dispatcher, overflow_checks, panicked, issued, gone, retired,
                 connection, acceptor, handshakes, history>>

\* Writing to the peer of endpoints[i] fails from now on.
SinkFails(i) ==
  /\ connection.alive
  /\ endpoints[i] # None
  /\ endpoints[i][1].reliable_channel.sink = "ok"
  /\ endpoints' = [endpoints EXCEPT ![i][1].reliable_channel.sink = "error"]
  /\ last' = [op |-> "sink_fails"]
  /\ invoked' = <<>>
  /\ UNCHANGED <<locks, pc, dispatcher, overflow_checks, panicked, issued, gone, retired,
                 connection, acceptor, handshakes, history>>

\* A holder of connection.endpoints() removes the peer in slot i.
ClearSlot(i) ==
  /\ connection.alive
  /\ endpoints[i] # None
  /\ endpoints' = [endpoints EXCEPT ![i] = None]
  /\ last' = [op |-> "clear_slot"]
  /\ invoked' = <<>>
  /\ UNCHANGED <<locks, pc, dispatcher, overflow_checks, panicked, issued, gone, retired,
                 connection, acceptor, handshakes, history>>

\* ConnectionIpAcceptor::new(Arc::downgrade(&conn), addr)
NewAcceptor ==
  /\ connection.alive
  /\ acceptor = None /\ connection.server_acceptor = None
  /\ acceptor' = Some(ConnectionIpAcceptor_new)
  /\ last' = [op |-> "new_acceptor"]
  /\ invoked' = <<>>
  /\ UNCHANGED <<locks, pc, dispatcher, overflow_checks, panicked, issued, gone, retired,
                 connection, endpoints, handshakes, history>>

\* The acceptor is attached to its connection: server_acceptor = Some(acceptor).
AttachAcceptor ==
  /\ connection.alive
  /\ acceptor # None
  /\ connection' = [connection EXCEPT !.server_acceptor = acceptor]
  /\ acceptor' = None
  /\ last' = [op |-> "attach_acceptor"]
  /\ invoked' = <<>>
  /\ UNCHANGED <<locks, pc, dispatcher, overflow_checks, panicked, issued, gone, retired,
                 endpoints, handshakes, history>>

\* A peer connects to the listener, or the listener ends (ended).
ListenerEvent(ended) ==
  /\ last' = [op |-> "listener"]
  /\ invoked' = <<>>
  /\ \/ /\ acceptor # None /\ ~acceptor[1].ended
        /\ acceptor' = Some(IF ended THEN [acceptor[1] EXCEPT !.ended = TRUE]
                            ELSE [acceptor[1] EXCEPT !.ready = @ + 1])
        /\ UNCHANGED connection
     \/ /\ connection.server_acceptor # None /\ ~connection.server_acceptor[1].ended
        /\ connection' =
             [connection EXCEPT !.server_acceptor =
                Some(IF ended THEN [connection.server_acceptor[1] EXCEPT !.ended = TRUE]
                     ELSE [connection.server_acceptor[1] EXCEPT !.ready = @ + 1])]
        /\ UNCHANGED acceptor
  /\ UNCHANGED <<locks, pc, dispatcher, overflow_checks, panicked, issued, gone, retired,
                 endpoints, handshakes, history>>

\* The runtime polls the acceptor that is a stream of its own.
DoAcceptorPoll ==
  /\ acceptor # None
  /\ LET r == ConnectionIpAcceptor_poll(acceptor[1], connection.alive)
     IN /\ acceptor' = Some(r.a)
        /\ handshakes' = handshakes + r.spawned
        /\ last' = [op |-> "acceptor_poll", ret |-> r.ret, spawned |-> r.spawned]
  /\ invoked' = <<>>
  /\ UNCHANGED <<locks, pc, dispatcher, overflow_checks, panicked, issued, gone, retired,
                 connection, endpoints, history>>

\* A handshake task finishes: on success (ok) its closure installs the endpoint,
\* on failure the socket is dropped.
HandshakeCompletes(ok) ==
  /\ handshakes > 0
  /\ handshakes' = handshakes - 1
  /\ endpoints' = IF ok
                  THEN install_endpoint(endpoints, EndpointIp_new(history.created + 1))
                  ELSE endpoints
  /\ history' = IF ok THEN [history EXCEPT !.created = @ + 1] ELSE history
  /\ last' = [op |-> "handshake", ok |-> ok, alive |-> connection.alive]
  /\ invoked' = <<>>
  /\ UNCHANGED <<locks, pc, dispatcher, overflow_checks, panicked, issued, gone, retired,
                 connection, acceptor>>

\* The last Arc<ConnectionIp> is dropped, and its server_acceptor with it.
DropConnection ==
  /\ connection.alive
  /\ connection' = [alive |-> FALSE, server_acceptor |-> None]
  /\ last' = [op |-> "drop"]
  /\ invoked' = <<>>
  /\ UNCHANGED <<locks, pc, dispatcher, overflow_checks, panicked, issued, gone, retired,
                 endpoints, acceptor, handshakes, history>>

\* ---------------------------------------- Spec: the dispatcher, small inputs

SenderFilters == {None, Some(0)}

RegisterType == \E name \in {GOT_CONNECTION, "tA"} : DoRegisterType(name)

AddHandler ==
  /\ TotalAdds(dispatcher) < MaxAdds
  /\ \E handler \in {ContinueProcessing, RemoveThisHandler, HandlerError},
        tf \in {None, Some(0), Some(4), Some(0 - 1)}, sf \in SenderFilters :
       DoAddHandler(handler, tf, sf)

RemoveHandler ==
  \E h \in {None, Some(0), Some(4)} \X (0..(MaxAdds - 1)) : DoRemoveHandler(h)

Call == \E msg \in [message_type : {0 - 1, 0, 4}, sender : {0, 1}] : DoCall(msg)

Next == RegisterType \/ AddHandler \/ RemoveHandler \/ Call

Spec == Init /\ [][Next]_vars

\* ------------------- SpecCap: registration up to the cap, few handlers

\* Names are opaque to the dispatcher, so new names are taken in this order.
CapTypeNames == <<"tA", "tB", "tC">>

CapSenderNames == <<"sA", "sB", "sC", "sD", "sE", "sF">>

\* The names of order that are registered in by_name, and the first that is not.
Offered(order, by_name) ==
  {order[i] : i \in {j \in 1..Len(order) :
                       \A k \in 1..(j - 1) : order[k] \in DOMAIN by_name}}

CapRegisterType ==
  \E name \in {GOT_CONNECTION} \cup Offered(CapTypeNames, dispatcher.types_by_name) :
    DoRegisterType(name)

CapRegisterSender ==
  \E name \in {CONTROL} \cup Offered(CapSenderNames, dispatcher.senders_by_name) :
    DoRegisterSender(name)

CapAddHandler ==
  /\ TotalAdds(dispatcher) < MaxCapAdds
  /\ \E handler \in {ContinueProcessing, RemoveThisHandler}, tf \in {None, Some(5)} :
       DoAddHandler(handler, tf, None)

CapRemoveHandler == \E h \in {None, Some(5)} \X {0} : DoRemoveHandler(h)

CapCall == DoCall([message_type |-> 5, sender |-> 0])

NextCap ==
  CapRegisterType \/ CapRegisterSender \/ CapAddHandler \/ CapRemoveHandler \/ CapCall

SpecCap == Init /\ [][NextCap]_vars

\* --------------- SpecWrap: one collection, next_handle driven past its maximum

WrapAddHandler ==
  /\ dispatcher.generic_callbacks.count <= IdTypeModulus
  /\ Len(dispatcher.generic_callbacks.callbacks) < MaxLive
  /\ DoAddHandler(ContinueProcessing, None, None)

WrapRemoveHandler ==
  \E h \in {None} \X (IdTypeMin..IdTypeMax) :
    /\ Under(dispatcher, h) # {}
    /\ DoRemoveHandler(h)

WrapCall == DoCall([message_type |-> 0, sender |-> 0])

NextWrap == WrapAddHandler \/ WrapRemoveHandler \/ WrapCall

SpecWrap == Init /\ [][NextWrap]_vars

\* ------------- SpecTyped: handlers added by the identifier of their body type

\* The identifiers of the body types are two names and two reserved system IDs.
TypedAddHandler ==
  /\ TotalAdds(dispatcher) < MaxAdds
  /\ \E handler \in {ContinueProcessing, RemoveThisHandler},
        identifier \in {UserMessageName("tA"), UserMessageName(GOT_CONNECTION),
                        SystemMessageId(0 - 1), SystemMessageId(0 - 2)},
        sf \in SenderFilters :
       DoAddTypedHandler(handler, identifier, sf)

TypedRemoveHandler ==
  \E h \in {Some(1), Some(4), Some(0 - 1)} \X (0..(MaxAdds - 1)) : DoRemoveHandler(h)

TypedCall == \E msg \in [message_type : {0 - 1, 1, 4}, sender : {0}] : DoCall(msg)

NextTyped == TypedAddHandler \/ TypedRemoveHandler \/ TypedCall

SpecTyped == Init /\ [][NextTyped]_vars

\* ------------------------ SpecConn: a client connection and its one endpoint

\* The frames a peer sends.
Frames ==
  {Message(0, 0), Message(1, 0), SenderDescription("sA", 1), TypeDescription("tA", 1),
   DisconnectMessage, UdpDescription, InvalidFrame}

\* ConnectionIp::new_client and a new dispatcher.
InitConn == InitDispatcher /\ InitConnection(1)

ConnAddHandler ==
  /\ TotalAdds(dispatcher) < MaxConnAdds
  /\ \E h \in {<<HandlerError, Some(0)>>, <<ContinueProcessing, Some(1)>>} :
       /\ Borrowed(dispatcher, h[2]).callbacks = <<>>
       /\ DoAddHandler(h[1], h[2], None)

ConnFrameArrives ==
  \E frame \in Frames :
    /\ Len(endpoints[1][1].reliable_channel.incoming)
         + Len(endpoints[1][1].system_rx) < MaxIncoming
    /\ FrameArrives(1, frame)

NextConn ==
  \/ DoPollEndpoints
  \/ ConnAddHandler
  \/ DoRegisterSender("sB")
  \/ ConnFrameArrives
  \/ StreamEnds(1)
  \/ SinkFails(1)

SpecConn == InitConn /\ [][NextConn]_vars

\* --------------- SpecSend: a client connection that sends to its peer

\* The application registers two senders and a type locally (whether it is a
\* sender, the name, the local ID), also a name under a second ID; it packs
\* the descriptions and sends messages of both classes; the sink may fail.
NextSend ==
  \/ DoPollEndpoints
  \/ \E l \in {<<TRUE, "nA", 1>>, <<TRUE, "nB", 2>>, <<TRUE, "nA", 2>>,
               <<FALSE, "nA", 1>>} :
       DoNewLocalId(1, l[1], l[2], l[3])
  \/ DoPackAllDescriptions(1)
  \/ \E class \in {RELIABLE, {"LOW_LATENCY"}} :
       DoBufferGenericMessage(1, Message(0, 0), class)
  \/ SinkFails(1)

SpecSend == InitConn /\ [][NextSend]_vars

\* ------------- SpecAccept: a server connection, its acceptor and their peers

\* The endpoints the connection has, waits for, or may still be offered.
Expected ==
  history.created + handshakes
    + (IF acceptor = None THEN 0 ELSE acceptor[1].ready)
    + (IF connection.server_acceptor = None THEN 0
       ELSE connection.server_acceptor[1].ready)

AcceptStreamEnds == \E i \in 1..Len(endpoints) : StreamEnds(i)

AcceptClearSlot == \E i \in 1..Len(endpoints) : ClearSlot(i)

AcceptListenerEvent ==
  \E ended \in BOOLEAN : (ended \/ Expected < MaxEndpoints) /\ ListenerEvent(ended)

AcceptHandshakeCompletes == \E ok \in BOOLEAN : HandshakeCompletes(ok)

NextAccept ==
  \/ DoPollEndpoints
  \/ AcceptStreamEnds
  \/ AcceptClearSlot
  \/ NewAcceptor
  \/ AttachAcceptor
  \/ AcceptListenerEvent
  \/ DoAcceptorPoll
  \/ AcceptHandshakeCompletes
  \/ DropConnection

SpecAccept == Init /\ [][NextAccept]_vars

\* ------ SpecDrain: the null_tracker server, which drains poll_endpoints

\* ConnectionAndServer::poll: drain_poll_fn calls connection.poll_endpoints()
\* again while it returns Ready(Some(())).  The server of null_tracker: a connection of new_server, an acceptor that is
\* a stream of its own, their peers, and the drain, which goes on calling
\* poll_endpoints.
NextDrain ==
  \/ DoPollEndpoints
  \/ NewAcceptor
  \/ AcceptListenerEvent
  \/ DoAcceptorPoll
  \/ AcceptHandshakeCompletes
  \/ AcceptStreamEnds

SpecDrain == Init /\ [][NextDrain]_vars /\ WF_vars(DoPollEndpoints)

\* ------------- SpecLocks: the tasks of a server, mutex by mutex

\* No task holds the mutex.
Free(mutex) == \A t \in Tasks : mutex \notin locks[t]

\* mutex.lock() by task t, which goes on at `at` when it has the guard; the
\* step waits while another guard of the mutex lives (also one of t itself).
Acquire(t, mutex, at) ==
  /\ Free(mutex)
  /\ locks' = [locks EXCEPT ![t] = @ \cup {mutex}]
  /\ pc' = [pc EXCEPT ![t].at = at]
  /\ last' = [op |-> "lock"]
  /\ invoked' = <<>>
  /\ UNCHANGED <<dispatcher, overflow_checks, panicked, issued, gone, retired,
                 connection, endpoints, acceptor, handshakes, history>>

\* The first slot from i on that `.flatten()` does not skip, or the end.
flatten_from(epoints, i) ==
  IF \E j \in i..Len(epoints) : epoints[j] # None
  THEN CHOOSE j \in i..Len(epoints) :
         epoints[j] # None /\ \A k \in i..(j - 1) : epoints[k] = None
  ELSE Len(epoints) + 1

\* The guards poll_endpoints holds are dropped when it returns, by `?` or at
\* its end: acceptor, endpoints, dispatcher.
poll_endpoints_returns(held) ==
  held \ {<<"server_acceptor", 0>>, <<"endpoints", 0>>, <<"dispatcher", 0>>}

\* The guard of the channel that lives on when poll_endpoint has returned.
channel_guard_kept(held, id) == held

\* The guard `channel` of poll_endpoint is dropped when poll_endpoint returns.
channel_guard_dropped(held, id) == held \ {<<"reliable_channel", id>>}

\* The loop of poll_endpoints goes on whatever poll_endpoint returned.
after_endpoint_ignores_error(ret) == "loop"

\* `ep.poll_endpoint(&mut dispatcher)?`: an error leaves poll_endpoints.
after_endpoint(ret) == IF ret.tag = "Err" THEN "return" ELSE "loop"

\* poll_endpoints of task t returns ret, having polled `polls`.
Returns(t, ret, polls, held) ==
  /\ locks' = [locks EXCEPT ![t] = poll_endpoints_returns(held)]
  /\ pc' = [pc EXCEPT ![t] = Idle]
  /\ last' = [op |-> "poll_endpoints", ret |-> ret, polls |-> polls]

\* let mut acceptor = self.server_acceptor.lock()?
SweepLockAcceptor(t) ==
  /\ pc[t].at = "idle"
  /\ connection.alive /\ ~panicked
  /\ Acquire(t, <<"server_acceptor", 0>>,
             IF connection.server_acceptor = None THEN "endpoints" ELSE "acceptor")

\* a.poll(): let mut incoming = self.server_tcp.lock()?
SweepLockTcp(t) ==
  /\ pc[t].at = "acceptor"
  /\ Acquire(t, <<"server_tcp", 0>>, "incoming")

\* The rest of the polls of the acceptor in poll_endpoints: the listener's
\* guard is dropped when poll returns; Ready(None) leaves poll_endpoints.
SweepPollAcceptor(t) ==
  LET r == ConnectionIpAcceptor_poll(connection.server_acceptor[1], TRUE)
      held == locks[t] \ {<<"server_tcp", 0>>}
  IN /\ pc[t].at = "incoming"
     /\ connection' = [connection EXCEPT !.server_acceptor = Some(r.a)]
     /\ handshakes' = handshakes + r.spawned
     /\ IF r.ret # NotReady
        THEN Returns(t, r.ret, <<>>, held)
        ELSE /\ locks' = [locks EXCEPT ![t] = held]
             /\ pc' = [pc EXCEPT ![t].at = "endpoints"]
             /\ last' = [op |-> "acceptor_polled"]
     /\ invoked' = <<>>
     /\ UNCHANGED <<dispatcher, overflow_checks, panicked, issued, gone, retired,
                    endpoints, acceptor, history>>

\* let mut endpoints = endpoints.lock()?
SweepLockEndpoints(t) ==
  /\ pc[t].at = "endpoints"
  /\ Acquire(t, <<"endpoints", 0>>, "dispatcher")

\* let mut dispatcher = dispatcher.lock()?, and the loop begins.
SweepLockDispatcher(t) ==
  /\ pc[t].at = "dispatcher"
  /\ Free(<<"dispatcher", 0>>)
  /\ locks' = [locks EXCEPT ![t] = @ \cup {<<"dispatcher", 0>>}]
  /\ pc' = [pc EXCEPT ![t] = [at |-> "loop", i |-> flatten_from(endpoints, 1),
                              got_not_ready |-> FALSE, polls |-> <<>>]]
  /\ last' = [op |-> "lock"]
  /\ invoked' = <<>>
  /\ UNCHANGED <<dispatcher, overflow_checks, panicked, issued, gone, retired,
                 connection, endpoints, acceptor, handshakes, history>>

\* ep.poll_endpoint: channel_arc.lock()
SweepLockChannel(t) ==
  /\ pc[t].at = "loop"
  /\ pc[t].i <= Len(endpoints)
  /\ Acquire(t, <<"reliable_channel", endpoints[pc[t].i][1].id>>, "poll")

\* The step of task t whose poll_endpoint of the endpoint in slot i returned r:
\* `?`, then the match on the result.
SweepPolled(t, i, r, polls, held) ==
  /\ pc[t].at = "poll"
  /\ endpoints' = [endpoints EXCEPT ![i] = Some(r.ep)]
  /\ dispatcher' = r.d
  /\ invoked' = r.log
  /\ IF after_endpoint(r.ret) = "return"
     THEN Returns(t, r.ret, polls, held)
     ELSE /\ locks' = [locks EXCEPT ![t] = held]
          /\ pc' = [pc EXCEPT ![t] =
                      [at |-> "loop", i |-> flatten_from(endpoints, i + 1),
                       got_not_ready |-> pc[t].got_not_ready \/ r.ret = NotReady,
                       polls |-> polls]]
          /\ last' = [op |-> "poll_endpoint", ret |-> r.ret]
  /\ UNCHANGED <<overflow_checks, panicked, issued, gone, retired,
                 connection, acceptor, handshakes, history>>

\* The rest of ep.poll_endpoint(&mut dispatcher) for the endpoint in slot i:
\* the guard of its channel is dropped when it returns.
SweepPollEndpoint(t) ==
  /\ pc[t].at = "poll"
  /\ SweepPolled(t, pc[t].i, poll_endpoint(endpoints[pc[t].i][1], dispatcher),
                 Append(pc[t].polls,
                        [slot |-> pc[t].i, id |-> endpoints[pc[t].i][1].id,
                         ret |-> poll_endpoint(endpoints[pc[t].i][1], dispatcher).ret,
                         applied |->
                           poll_endpoint(endpoints[pc[t].i][1], dispatcher).applied]),
                 channel_guard_dropped(locks[t], endpoints[pc[t].i][1].id))

\* The end of the loop: NotReady if an endpoint was, else Ready(Some(())).
SweepReturn(t) ==
  /\ pc[t].at = "loop"
  /\ pc[t].i > Len(endpoints)
  /\ Returns(t, IF pc[t].got_not_ready THEN NotReady ELSE Ok("ReadySome", 0),
             pc[t].polls, locks[t])
  /\ invoked' = <<>>
  /\ UNCHANGED <<dispatcher, overflow_checks, panicked, issued, gone, retired,
                 connection, endpoints, acceptor, handshakes, history>>

\* The acceptor that is a stream of its own is polled:
\* let mut incoming = self.server_tcp.lock()?
AcceptorLockTcp ==
  /\ pc["acceptor"].at = "idle"
  /\ acceptor # None
  /\ Acquire("acceptor", <<"server_tcp", 0>>, "incoming")

\* The rest of that poll; the listener's guard is dropped when it returns.
AcceptorPollIncoming ==
  LET r == ConnectionIpAcceptor_poll(acceptor[1], connection.alive)
  IN /\ pc["acceptor"].at = "incoming"
     /\ acceptor' = Some(r.a)
     /\ handshakes' = handshakes + r.spawned
     /\ locks' = [locks EXCEPT !["acceptor"] = @ \ {<<"server_tcp", 0>>}]
     /\ pc' = [pc EXCEPT !["acceptor"] = Idle]
     /\ last' = [op |-> "acceptor_poll", ret |-> r.ret, spawned |-> r.spawned]
     /\ invoked' = <<>>
     /\ UNCHANGED <<dispatcher, overflow_checks, panicked, issued, gone, retired,
                    connection, endpoints, history>>

\* The closure of a handshake task that succeeded:
\* if let Ok(mut epoints) = endpoints.lock()
HandshakeLockEndpoints ==
  /\ pc["handshake"].at = "idle"
  /\ handshakes > 0
  /\ Acquire("handshake", <<"endpoints", 0>>, "install")

\* epoints.push(Some(EndpointIp::new(stream))), and the guard is dropped.
HandshakePush ==
  /\ pc["handshake"].at = "install"
  /\ endpoints' = install_endpoint(endpoints, EndpointIp_new(history.created + 1))
  /\ history' = [history EXCEPT !.created = @ + 1]
  /\ handshakes' = handshakes - 1
  /\ locks' = [locks EXCEPT !["handshake"] = @ \ {<<"endpoints", 0>>}]
  /\ pc' = [pc EXCEPT !["handshake"] = Idle]
  /\ last' = [op |-> "handshake", ok |-> TRUE, alive |-> connection.alive]
  /\ invoked' = <<>>
  /\ UNCHANGED <<dispatcher, overflow_checks, panicked, issued, gone, retired,
                 connection, acceptor>>

\* connection.pack_message_body(..): the sender reaches the endpoints through
\* connection.endpoints(), the mutex around the vector that owns them.
SenderLockEndpoints ==
  /\ pc["sender"].at = "idle"
  /\ connection.alive
  /\ Free(<<"endpoints", 0>>)
  /\ locks' = [locks EXCEPT !["sender"] = @ \cup {<<"endpoints", 0>>}]
  /\ pc' = [pc EXCEPT !["sender"] = [Idle EXCEPT !.at = "pack",
                                                 !.i = flatten_from(endpoints, 1)]]
  /\ last' = [op |-> "lock"]
  /\ invoked' = <<>>
  /\ UNCHANGED <<dispatcher, overflow_checks, panicked, issued, gone, retired,
                 connection, endpoints, acceptor, handshakes, history>>

\* ep.buffer_generic_message: self.reliable_channel.lock()
SenderLockChannel ==
  /\ pc["sender"].at = "pack"
  /\ pc["sender"].i <= Len(endpoints)
  /\ Acquire("sender", <<"reliable_channel", endpoints[pc["sender"].i][1].id>>, "send")

\* The rest of ep.buffer_generic_message(msg, class); its guard is dropped when
\* it returns, and an error leaves the sender's loop over the endpoints.
SenderSend ==
  LET i == pc["sender"].i
      r == buffer_generic_message(endpoints[i][1], Message(0, 0), {"LOW_LATENCY"})
      held == locks["sender"] \ {<<"reliable_channel", r.ep.id>>}
  IN /\ pc["sender"].at = "send"
     /\ endpoints' = [endpoints EXCEPT ![i] = Some(r.ep)]
     /\ IF r.ret.tag = "Ok"
        THEN /\ locks' = [locks EXCEPT !["sender"] = held]
             /\ pc' = [pc EXCEPT !["sender"].at = "pack",
                                 !["sender"].i = flatten_from(endpoints, i + 1)]
        ELSE /\ locks' = [locks EXCEPT !["sender"] = held \ {<<"endpoints", 0>>}]
             /\ pc' = [pc EXCEPT !["sender"] = Idle]
     /\ last' = [op |-> "buffer_generic_message", msg |-> Message(0, 0),
                 class |-> {"LOW_LATENCY"}, ret |-> r.ret]
     /\ invoked' = <<>>
     /\ UNCHANGED <<dispatcher, overflow_checks, panicked, issued, gone, retired,
                    connection, acceptor, handshakes, history>>

\* The message was buffered for every endpoint: the endpoints' guard is dropped.
SenderReturn ==
  /\ pc["sender"].at = "pack"
  /\ pc["sender"].i > Len(endpoints)
  /\ locks' = [locks EXCEPT !["sender"] = @ \ {<<"endpoints", 0>>}]
  /\ pc' = [pc EXCEPT !["sender"] = Idle]
  /\ last' = [op |-> "pack_message", ret |-> Ok("Unit", 0)]
  /\ invoked' = <<>>
  /\ UNCHANGED <<dispatcher, overflow_checks, panicked, issued, gone, retired,
                 connection, endpoints, acceptor, handshakes, history>>

\* The tasks' steps; the acceptor, while no task polls it, is moved into the
\* connection under its mutex; peers connect; sinks fail.
NextLocks ==
  \/ \E t \in Pollers :
       \/ SweepLockAcceptor(t)
       \/ SweepLockTcp(t)
       \/ SweepPollAcceptor(t)
       \/ SweepLockEndpoints(t)
       \/ SweepLockDispatcher(t)
       \/ SweepLockChannel(t)
       \/ SweepPollEndpoint(t)
       \/ SweepReturn(t)
  \/ AcceptorLockTcp
  \/ AcceptorPollIncoming
  \/ HandshakeLockEndpoints
  \/ HandshakePush
  \/ SenderLockEndpoints
  \/ SenderLockChannel
  \/ SenderSend
  \/ SenderReturn
  \/ NewAcceptor
  \/ (Free(<<"server_acceptor", 0>>) /\ Free(<<"server_tcp", 0>>) /\ AttachAcceptor)
  \/ AcceptListenerEvent
  \/ \E i \in 1..Len(endpoints) : SinkFails(i)

SpecLocks == Init /\ [][NextLocks]_vars

\* ------------------------------------------------------------------ claims

\* No step changes or drops the ID a name is registered under.
IdsStable(by_name, by_name_after) ==
  \A n \in DOMAIN by_name : n \in DOMAIN by_name_after /\ by_name_after[n] = by_name[n]

\* A register call on a name that is already registered: Found(the ID it has),
\* and the dispatcher is as it was.
LaterRegister(by_name, name, ret) ==
  /\ ret = Ok("Found", by_name[name])
  /\ dispatcher' = dispatcher

\* A register call on a name not yet registered, while the table has room:
\* NewMapping(id), and the name is registered under id from now on.
FirstRegister(by_name_after, name, ret) ==
  /\ ret.tag = "Ok" /\ ret.kind = "NewMapping"
  /\ name \in DOMAIN by_name_after /\ by_name_after[name] = ret.id

\* A register call on a name not yet registered, at the cap.
RegisterAtCap(ret) == ret = Err("TooManyMappings", 0) /\ dispatcher' = dispatcher

\* C1 as stated: the first register_type(name) returns NewMapping(id) and every
\* later one Found(id) with the same id, leaving the dispatcher unchanged; the same
\* for register_sender.
C1_AsStated ==
  [][/\ IdsStable(dispatcher.types_by_name, dispatcher'.types_by_name)
     /\ IdsStable(dispatcher.senders_by_name, dispatcher'.senders_by_name)
     /\ last'.op = "register_type" =>
          IF last'.name \in DOMAIN dispatcher.types_by_name
          THEN LaterRegister(dispatcher.types_by_name, last'.name, last'.ret)
          ELSE FirstRegister(dispatcher'.types_by_name, last'.name, last'.ret)
     /\ last'.op = "register_sender" =>
          IF last'.name \in DOMAIN dispatcher.senders_by_name
          THEN LaterRegister(dispatcher.senders_by_name, last'.name, last'.ret)
          ELSE FirstRegister(dispatcher'.senders_by_name, last'.name, last'.ret)
    ]_vars

\* C1 amended: the first register_type(name) made while types.len() <=
\* MAX_VEC_USIZE returns NewMapping(id), and every later one returns Found(id) with
\* the same id and leaves the dispatcher unchanged; a register_type of an
\* unregistered name made while types.len() > MAX_VEC_USIZE fails with
\* TooManyMappings and changes nothing.  The same for register_sender.
C1_Idempotent ==
  [][/\ IdsStable(dispatcher.types_by_name, dispatcher'.types_by_name)
     /\ IdsStable(dispatcher.senders_by_name, dispatcher'.senders_by_name)
     /\ last'.op = "register_type" =>
          IF last'.name \in DOMAIN dispatcher.types_by_name
          THEN LaterRegister(dispatcher.types_by_name, last'.name, last'.ret)
          ELSE IF Len(dispatcher.types) <= MAX_VEC_USIZE
          THEN FirstRegister(dispatcher'.types_by_name, last'.name, last'.ret)
          ELSE RegisterAtCap(last'.ret)
     /\ last'.op = "register_sender" =>
          IF last'.name \in DOMAIN dispatcher.senders_by_name
          THEN LaterRegister(dispatcher.senders_by_name, last'.name, last'.ret)
          ELSE IF Len(dispatcher.senders) <= MAX_VEC_USIZE
          THEN FirstRegister(dispatcher'.senders_by_name, last'.name, last'.ret)
          ELSE RegisterAtCap(last'.ret)
    ]_vars

\* A later register_type, after a handler was added to the type's collection,
\* found the ID the first call allocated.
C1_Witness ==
  /\ last.op = "register_type" /\ last.name = "tB" /\ last.ret = Ok("Found", 5)
  /\ dispatcher.types[6].count > 0

\* ------------------------------------------- words shared by C2..C10

\* The keys of the dispatcher's collections: None for the generic one, Some(i)
\* for types[i].
Keys(d) == {None} \cup {Some(i) : i \in 0..(Len(d.types) - 1)}

\* The entries registered in the collection under key, in slot order.
RegisteredIn(d, key) == Registered(Borrowed(d, key).callbacks)

\* s is strictly increasing.
Increasing(s) == \A i, j \in 1..Len(s) : i < j => s[i] < s[j]

\* The handlers a call(msg) comes to in d, in order, if none of them fails.
DispatchOrder(d, msg) ==
  LET g == RegisteredIn(d, None)
      t == RegisteredIn(d, Some(msg.message_type))
  IN [i \in 1..Len(g) |-> [coll |-> None, entry |-> g[i]]] \o
     [i \in 1..Len(t) |-> [coll |-> Some(msg.message_type), entry |-> t[i]]]

\* The sender filter of entry lets msg through.
Passes(entry, msg) ==
  entry.sender_filter # None => entry.sender_filter[1] = msg.sender

\* The dispatch gets as far as order[i]: no handler before it was run and failed.
Reaches(order, i, msg) ==
  \A j \in 1..(i - 1) :
    ~(Passes(order[j].entry, msg) /\ order[j].entry.handler = HandlerError)

\* msg.type names one of the types of d.
ValidType(d, msg) == msg.message_type \in 0..(Len(d.types) - 1)

\* This step is a call(msg) with a valid msg.type.
Dispatching == last'.op = "call" /\ ValidType(dispatcher, last'.msg)

\* -------------------------------------------------------------------- C2

\* C2: in every collection the registered handlers stand in the order in which
\* they were added, after any interleaving of add, remove and call, and a dispatch
\* invokes the handlers of one collection in that order, whatever their filters.
C2_DispatchInAddOrder ==
  /\ \A key \in Keys(dispatcher) :
       Increasing([i \in 1..Len(RegisteredIn(dispatcher, key)) |->
                     RegisteredIn(dispatcher, key)[i].seq])
  /\ \A i, j \in 1..Len(invoked) :
       i < j /\ invoked[i].coll = invoked[j].coll
         => invoked[i].entry.seq < invoked[j].entry.seq

\* H1 was removed from [H1, H2], H3 was added, and the dispatch ran H2 then H3,
\* which have different sender filters.
C2_Witness ==
  /\ [coll |-> None, seq |-> 0] \in gone
  /\ Len(invoked) = 2
  /\ invoked[1].coll = None /\ invoked[1].entry.seq = 1
  /\ invoked[2].coll = None /\ invoked[2].entry.seq = 2
  /\ invoked[1].entry.sender_filter # invoked[2].entry.sender_filter

\* -------------------------------------------------------------------- C3

\* C3: once remove_handler(h) succeeded, no handler that was registered under h
\* is registered, none is invoked by any later call, and all other handlers of
\* all collections are registered as before.
C3_RemovedNeverInvoked ==
  [][/\ \A x \in Range(invoked') : Id(x.coll, x.entry) \notin gone'
     /\ last'.op = "remove_handler" /\ last'.ret.tag = "Ok" =>
          LET h == last'.handler_handle
          IN /\ Under(dispatcher', h) = {}
             /\ RegisteredIn(dispatcher', h[1]) =
                  SelectSeq(RegisteredIn(dispatcher, h[1]),
                            LAMBDA e : e.handle # h[2])
             /\ \A key \in Keys(dispatcher) \ {h[1]} :
                  Borrowed(dispatcher', key) = Borrowed(dispatcher, key)
    ]_vars

\* -------------------------------------------------------------------- C4

\* C4: remove_handler with a handle under which no handler of its collection is
\* registered returns HandlerNotFound and leaves the dispatcher unchanged, and a
\* second remove_handler of the handle just removed fails with HandlerNotFound.
C4_RemoveUnknownFails ==
  [][last'.op = "remove_handler" =>
       LET h == last'.handler_handle
       IN /\ h[1] \in Keys(dispatcher) /\ Under(dispatcher, h) = {}
               => /\ last'.ret = Err("HandlerNotFound", 0)
                  /\ dispatcher' = dispatcher
          /\ last.op = "remove_handler" /\ last.ret.tag = "Ok"
             /\ last.handler_handle = h
               => last'.ret = Err("HandlerNotFound", 0)
    ]_vars

\* -------------------------------------------------------------------- C5

\* C5: in a dispatch, a registered handler of the generic collection or of the
\* collection of msg.type is invoked exactly when the dispatch reaches its slot
\* and its sender filter is None or equals msg.sender.
C5_FilterCorrect ==
  [][Dispatching =>
       LET msg == last'.msg
           order == DispatchOrder(dispatcher, msg)
       IN /\ \A i \in 1..Len(order) :
               order[i] \in Range(invoked')
                 <=> /\ Reaches(order, i, msg)
                     /\ \/ order[i].entry.sender_filter = None
                        \/ order[i].entry.sender_filter = Some(msg.sender)
          /\ Range(invoked') \subseteq Range(order)
    ]_vars

\* A dispatch from sender 1 passed over a handler filtered on sender 0 and
\* invoked an unfiltered handler placed after it.
C5_Witness ==
  /\ last.op = "call" /\ last.msg.sender = 1 /\ last.msg.message_type = 0
  /\ Len(invoked) = 1 /\ invoked[1].entry.sender_filter = None
  /\ \E e \in Range(RegisteredIn(dispatcher, None)) :
       e.sender_filter = Some(0) /\ e.seq < invoked[1].entry.seq
          /\ invoked[1].coll = None

\* -------------------------------------------------------------------- C6

\* C6: no two successful add_handler calls return equal handles.
C6_HandlesUnique == \A h \in DOMAIN issued : issued[h] = 1

\* -------------------------------------------------------------------- C7

\* C7: a call with a valid msg.type invokes handlers of the generic collection
\* and of the collection of msg.type only, every generic one before any of the
\* type's, and when it invokes one of the type's it has invoked every generic
\* handler whose filter lets msg through.
C7_GenericThenType ==
  [][Dispatching =>
       LET msg == last'.msg
       IN /\ \A x \in Range(invoked') :
               x.coll = None \/ x.coll = Some(msg.message_type)
          /\ \A i, j \in 1..Len(invoked') :
               i < j /\ invoked'[j].coll = None => invoked'[i].coll = None
          /\ (\E x \in Range(invoked') : x.coll # None) =>
               \A e \in Range(RegisteredIn(dispatcher, None)) :
                 Passes(e, msg) => [coll |-> None, entry |-> e] \in Range(invoked')
    ]_vars

\* A call for type 0 invoked a generic handler and then a handler of type 0,
\* while the collection of type 4 held a handler that lets the message through.
C7_Witness ==
  /\ last.op = "call" /\ last.msg.message_type = 0
  /\ Len(invoked) = 2
  /\ invoked[1].coll = None /\ invoked[2].coll = Some(0)
  /\ Len(dispatcher.types) > 4
  /\ \E e \in Range(RegisteredIn(dispatcher, Some(4))) : Passes(e, last.msg)

\* -------------------------------------------------------------------- C8

\* C8: a call whose msg.type is negative or >= types.len() returns
\* InvalidId(msg.type), invokes no handler and leaves the dispatcher unchanged.
C8_InvalidTypeRejected ==
  [][last'.op = "call" /\ ~ValidType(dispatcher, last'.msg) =>
       /\ last'.ret = Err("InvalidId", last'.msg.message_type)
       /\ invoked' = <<>>
       /\ dispatcher' = dispatcher
    ]_vars

\* A call with msg.type = types.len() was rejected while the generic collection
\* held a handler that lets the message through.
C8_Witness ==
  /\ last.op = "call" /\ last.msg.message_type = Len(dispatcher.types)
  /\ last.ret.tag = "Err"
  /\ \E e \in Range(RegisteredIn(dispatcher, None)) : Passes(e, last.msg)

\* -------------------------------------------------------------------- C9

\* The slots of callbacks from the one holding the entry of order number seq on.
SlotsFrom(callbacks, seq) ==
  LET at == {i \in 1..Len(callbacks) :
               callbacks[i] # None /\ callbacks[i][1].seq = seq}
  IN IF at = {} THEN <<>>
     ELSE SubSeq(callbacks, CHOOSE i \in at : TRUE, Len(callbacks))

\* C9: when a handler returns an error during call(msg), the call returns that
\* error, the failing handler is the last one invoked (no later handler of its
\* collection runs, and the type's collection does not run after a failure in
\* the generic one), and the failing handler and all handlers after it stay
\* registered.
C9_ErrorShortCircuits ==
  [][last'.op = "call" /\
     (\E x \in Range(invoked') : x.entry.handler = HandlerError) =>
       LET f == invoked'[Len(invoked')]
           before == Borrowed(dispatcher, f.coll).callbacks
           after == Borrowed(dispatcher', f.coll).callbacks
       IN /\ last'.ret = Err("HandlerError", 0)
          /\ f.entry.handler = HandlerError
          /\ \A i \in 1..(Len(invoked') - 1) :
               invoked'[i].entry.handler # HandlerError
          /\ \A x \in Range(invoked') :
               /\ x.coll = f.coll => x.entry.seq <= f.entry.seq
               /\ f.coll = None => x.coll = None
          /\ SlotsFrom(before, f.entry.seq) # <<>>
          /\ SlotsFrom(after, f.entry.seq) = SlotsFrom(before, f.entry.seq)
          /\ f.coll = None =>
               dispatcher'.types = dispatcher.types
    ]_vars

\* A generic handler failed on a message of type 0: a generic handler after it
\* and a handler of type 0 let the message through and were not invoked.
C9_Witness ==
  /\ last.op = "call" /\ last.ret = Err("HandlerError", 0)
  /\ last.msg.message_type = 0
  /\ Len(invoked) = 1 /\ invoked[1].coll = None
  /\ \E e \in Range(RegisteredIn(dispatcher, None)) :
       e.seq > invoked[1].entry.seq /\ Passes(e, last.msg)
  /\ \E e \in Range(RegisteredIn(dispatcher, Some(0))) : Passes(e, last.msg)

\* -------------------------------------------------------------------- C10

\* The collections a call(msg) with a valid msg.type goes through.
Called(msg) == {None, Some(msg.message_type)}

\* C10: in a dispatch the slot of every handler that was invoked and returned
\* RemoveThisHandler is emptied, and every other slot (a handler that returned
\* ContinueProcessing or was not invoked) is as before; no slot moves.  A
\* dispatch nobody fails in invokes every registered handler whose filter lets
\* the message through, also after one that removed itself, and no dispatch
\* invokes a handler that returned RemoveThisHandler in an earlier one.
C10_SelfRemoval ==
  [][Dispatching =>
       LET msg == last'.msg
       IN /\ \A key \in Keys(dispatcher) :
               LET before == Borrowed(dispatcher, key).callbacks
                   after == Borrowed(dispatcher', key).callbacks
               IN /\ Len(after) = Len(before)
                  /\ \A i \in 1..Len(before) :
                       after[i] =
                         IF /\ before[i] # None
                            /\ [coll |-> key, entry |-> before[i][1]]
                                 \in Range(invoked')
                            /\ before[i][1].handler = RemoveThisHandler
                         THEN None
                         ELSE before[i]
          /\ last'.ret.tag = "Ok" =>
               \A key \in Called(msg) :
                 \A e \in Range(RegisteredIn(dispatcher, key)) :
                   Passes(e, msg) => [coll |-> key, entry |-> e] \in Range(invoked')
          /\ \A x \in Range(invoked') : Id(x.coll, x.entry) \notin retired
    ]_vars

\* A dispatch invoked, in one collection, a handler that returned
\* ContinueProcessing, one that returned RemoveThisHandler and one after it: the
\* second slot is empty, the other two are as they were.
C10_Witness ==
  /\ last.op = "call" /\ last.ret.tag = "Ok"
  /\ Len(invoked) = 3
  /\ \A i \in 1..3 : invoked[i].coll = None
  /\ invoked[1].entry.handler = ContinueProcessing
  /\ invoked[2].entry.handler = RemoveThisHandler
  /\ invoked[3].entry.handler = ContinueProcessing
  /\ dispatcher.generic_callbacks.callbacks =
       <<Some(invoked[1].entry), None, Some(invoked[3].entry)>>

\* -------------------------------------------------------------------- C11

\* The system names of TypeDispatcher::new, in the order of their local type IDs.
SystemTypes ==
  <<GOT_FIRST_CONNECTION, GOT_CONNECTION, DROPPED_CONNECTION, DROPPED_LAST_CONNECTION>>

\* C11: at all times CONTROL is the sender of local ID 0 and the four
\* connection-lifecycle types have the local type IDs 0, 1, 2, 3, in the maps by
\* name and in the vectors; the first sender registered after construction gets
\* local ID 1 and the first type registered after construction gets local ID 4.
C11_ReservedIds ==
  [][/\ CONTROL \in DOMAIN dispatcher'.senders_by_name
     /\ dispatcher'.senders_by_name[CONTROL] = 0
     /\ dispatcher'.senders[1] = CONTROL
     /\ \A i \in 1..4 :
          /\ SystemTypes[i] \in DOMAIN dispatcher'.types_by_name
          /\ dispatcher'.types_by_name[SystemTypes[i]] = i - 1
          /\ dispatcher'.types[i].name = SystemTypes[i]
     /\ last'.op = "register_sender" /\ DOMAIN dispatcher.senders_by_name = {CONTROL}
        /\ last'.name # CONTROL
          => last'.ret = Ok("NewMapping", 1)
     /\ last'.op = "register_type" /\ DOMAIN dispatcher.types_by_name = Range(SystemTypes)
        /\ last'.name \notin Range(SystemTypes)
          => last'.ret = Ok("NewMapping", 4)
    ]_vars

\* The first user type was registered, at ID 4, after the first user sender was
\* registered at ID 1.
C11_Witness ==
  /\ last.op = "register_type" /\ last.ret = Ok("NewMapping", 4)
  /\ "sA" \in DOMAIN dispatcher.senders_by_name
  /\ dispatcher.senders_by_name["sA"] = 1
  /\ dispatcher.senders = <<CONTROL, "sA">>

\* -------------------------------------------------------------------- C12

\* C12: add_typed_handler succeeds for both kinds of identifier: for a name the
\* type is registered afterwards and the handler is in that type's collection;
\* for a reserved system ID the call succeeds too; either way the handle
\* returned is one remove_handler accepts.
C12_TypedBothKinds ==
  [][last'.op = "add_typed_handler" =>
       LET identifier == last'.identifier
           handle == <<last'.message_type, last'.ret.id>>
       IN /\ last'.ret.tag = "Ok"
          /\ identifier.kind = "UserMessageName" =>
               /\ get_type_id(dispatcher', identifier.name) = last'.message_type
               /\ Under(dispatcher', handle) # {}
          /\ identifier.kind = "SystemMessageId" =>
               last'.message_type = Some(identifier.id)
          /\ remove_handler(dispatcher', handle).ret.tag = "Ok"
    ]_vars

\* ------------------------------------------- C13: closed endpoints are released

\* C13: when poll_endpoint of an endpoint returns Ready(()) during a sweep of
\* poll_endpoints, the sweep leaves that endpoint's slot empty, and no sweep
\* polls an endpoint that returned Ready(()) to an earlier sweep.
C13_ClosedSlotReleased ==
  [][last'.op = "poll_endpoints" =>
       \A k \in 1..Len(last'.polls) :
          /\ last'.polls[k].ret = Ready => endpoints'[last'.polls[k].slot] = None
          /\ last'.polls[k].id \notin history.reported]_vars

\* --------------------------------------------- C14: result of poll_endpoints

\* The polls of the last sweep, as a set of results.
SweepResults(polls) == {polls[k].ret : k \in 1..Len(polls)}

\* The endpoint has nothing left to do: the stream is over, every frame was
\* read and every system message applied.
NoPendingWork(ep) ==
  /\ ep.reliable_channel.read # "open"
  /\ ep.reliable_channel.incoming = <<>>
  /\ ep.system_rx = <<>>

EmptySlots(epoints) == {i \in 1..Len(epoints) : epoints[i] = None}

\* The least element of a non-empty set of slots.
FirstSlot(slots) == CHOOSE i \in slots : \A j \in slots : i <= j

\* C15: a handshake that succeeds puts the new endpoint into the first empty
\* slot of the endpoints vector if there is one, and appends it only if there
\* is none; every other slot is as it was.
C15_FirstEmptySlot ==
  [][(last'.op = "handshake" /\ last'.ok) =>
       IF EmptySlots(endpoints) # {}
       THEN /\ Len(endpoints') = Len(endpoints)
            /\ endpoints'[FirstSlot(EmptySlots(endpoints))] # None
            /\ \A i \in 1..Len(endpoints) :
                  i # FirstSlot(EmptySlots(endpoints)) => endpoints'[i] = endpoints[i]
       ELSE /\ Len(endpoints') = Len(endpoints) + 1
            /\ endpoints'[Len(endpoints')] # None
            /\ \A i \in 1..Len(endpoints) : endpoints'[i] = endpoints[i]]_vars

\* ------------------------------------------- C16: dropping the connection

\* C16: once the connection is dropped, the next poll of its acceptor returns
\* Ready(None) and takes no socket from the listener, and a handshake task
\* that finishes after the drop adds no endpoint to the endpoints vector.
C16_DropDeliversNothing ==
  [][/\ (last'.op = "acceptor_poll" /\ ~connection.alive) =>
          (last'.ret = Ok("ReadyNone", 0) /\ last'.spawned = 0 /\ acceptor' = acceptor)
     /\ (last'.op = "handshake" /\ ~last'.alive) => endpoints' = endpoints]_vars

\* ------------------------------------------------ C17: translation symmetry

\* The description msg is in force for endpoint ep and dispatcher d: the name
\* is registered at a local ID l, the remote ID maps to l, and l is known
\* under the name.
Translated(ep, d, msg) ==
  LET sender == msg.kind = "SenderDescription"
      by_name == IF sender THEN d.senders_by_name ELSE d.types_by_name
      table == IF sender THEN ep.translation.senders ELSE ep.translation.types
  IN /\ msg.name \in DOMAIN by_name
     /\ map_to_local_id(table, msg.which) = Some(by_name[msg.name])
     /\ find_by_local_id(table, by_name[msg.name]) # None
     /\ find_by_local_id(table, by_name[msg.name])[1].name = msg.name

\* The descriptions a poll of the last sweep applied without an error.
Described(poll) ==
  {poll.applied[m] : m \in {n \in 1..Len(poll.applied) :
      /\ poll.ret.tag = "Ok"
      /\ poll.applied[n].kind \in {"SenderDescription", "TypeDescription"}}}

\* C17: after poll_endpoint applied a SenderDescription or TypeDescription
\* {name, remote_id}, the dispatcher has the name registered at a local ID l,
\* the endpoint's map_to_local_id(remote_id) is Some(l) and
\* find_by_local_id(l).name is the name.
C17_TranslationSymmetry ==
  last.op = "poll_endpoints" =>
    \A k \in 1..Len(last.polls) :
       \A msg \in Described(last.polls[k]) :
          Translated(endpoints[last.polls[k].slot][1], dispatcher, msg)

\* A poll applied the description of sender "sA" after the application had
\* registered another sender, so that the local ID differs from the remote
\* one, and after the description of a type had been applied.
C17_Witness ==
  /\ last.op = "poll_endpoints"
  /\ \E k \in 1..Len(last.polls) :
        /\ SenderDescription("sA", 1) \in Described(last.polls[k])
        /\ TypeDescription("tA", 1) \notin Described(last.polls[k])
  /\ "sA" \in DOMAIN dispatcher.senders_by_name
  /\ dispatcher.senders_by_name["sA"] = 2
  /\ endpoints[1] # None
  /\ map_to_local_id(endpoints[1][1].translation.types, 1) = Some(4)

\* ------------------------------------------------- C18: DisconnectMessage

\* C18: once an endpoint has applied a DisconnectMessage, each later
\* poll_endpoint of it that returns Ok returns Ready(()), whether or not the
\* stream is still open.
C18_DisconnectCloses ==
  [][last'.op = "poll_endpoints" =>
       \A k \in 1..Len(last'.polls) :
          (last'.polls[k].id \in history.disconnected /\ last'.polls[k].ret.tag = "Ok")
            => last'.polls[k].ret = Ready]_vars

\* ------------------------------------------------------- C19: codec errors

\* C19: a poll_endpoint that meets an error of the reliable channel, when it
\* flushes or when it reads a frame, returns Ok(Ready(())) and no error.
C19_CodecErrorTerminates ==
  [][last'.op = "poll_endpoints" =>
       \A k \in 1..Len(last'.polls) :
          LET before == endpoints[last'.polls[k].slot][1].reliable_channel
              after == endpoints'[last'.polls[k].slot][1].reliable_channel
          IN /\ before.sink = "error" => last'.polls[k].ret = Ready
             /\ (before.read = "open" /\ after.read = "failed")
                  => last'.polls[k].ret = Ready]_vars

\* ------------------------------------------------------ C20: handler errors

\* s is an initial part of t.
IsPrefix(s, t) == Len(s) <= Len(t) /\ SubSeq(t, 1, Len(s)) = s

\* s is a final part of t.
IsSuffix(s, t) == Len(s) <= Len(t) /\ SubSeq(t, Len(t) - Len(s) + 1, Len(t)) = s

\* The frame is a message for which the dispatcher runs a handler.
Handled(d, frame) ==
  /\ frame.kind = "Message"
  /\ Registered(Borrowed(d, Some(frame.message_type)).callbacks) # <<>>

\* The frames a poll took off the stream, given the endpoint before and after.
Consumed(before, after) ==
  SubSeq(before.reliable_channel.incoming, 1,
         Len(before.reliable_channel.incoming) - Len(after.reliable_channel.incoming))

\* The frames of incoming that are system messages, in order.
SystemFrames(incoming) ==
  SelectSeq(incoming, LAMBDA f : f.kind \notin {"Message", "InvalidFrame"})

\* C20: when a handler returns an error while poll_endpoint dispatches a frame,
\* poll_endpoint and poll_endpoints return that error; the endpoint stays in
\* its slot with its stream as it was, the frames behind the failing one stay
\* to be read and the system messages queued or read before it stay queued; a later
\* poll_endpoint of this endpoint that returns Ok has delivered every message
\* that waited to its handler and applied every system message that waited.
C20_HandlerErrorKeepsEndpoint ==
  [][last'.op = "poll_endpoints" =>
       \A k \in 1..Len(last'.polls) :
          LET poll == last'.polls[k]
              before == endpoints[poll.slot][1]
              after == endpoints'[poll.slot]
          IN /\ (\E n \in 1..Len(invoked') : invoked'[n].entry.handler = HandlerError)
                  => (poll.ret = Err("HandlerError", 0) /\ last'.ret = poll.ret)
             /\ poll.ret = Err("HandlerError", 0) =>
                  /\ after # None
                  /\ after[1].reliable_channel.read = before.reliable_channel.read
                  /\ IsSuffix(after[1].reliable_channel.incoming,
                              before.reliable_channel.incoming)
                  /\ Len(after[1].reliable_channel.incoming)
                       < Len(before.reliable_channel.incoming)
                  /\ Handled(dispatcher, Consumed(before, after[1])[Len(Consumed(before, after[1]))])
                  /\ after[1].system_rx =
                       before.system_rx \o SystemFrames(Consumed(before, after[1]))
             /\ (poll.id \in history.failed /\ poll.ret.tag = "Ok"
                 /\ InvalidFrame \notin Range(before.reliable_channel.incoming)) =>
                  /\ after # None
                  /\ after[1].reliable_channel.incoming = <<>>
                  /\ after[1].system_rx = <<>>
                  /\ poll.applied =
                       before.system_rx \o SystemFrames(before.reliable_channel.incoming)
                  /\ Len(invoked') =
                       Cardinality({n \in 1..Len(before.reliable_channel.incoming) :
                          Handled(dispatcher, before.reliable_channel.incoming[n])})]_vars

\* An endpoint that had returned the error of a handler was polled again: the
\* poll returned NotReady, ran the handler of a message and applied a system
\* message.
C20_Witness ==
  /\ last.op = "poll_endpoints"
  /\ last.ret = NotReady
  /\ 1 \in history.failed
  /\ Len(last.polls) = 1
  /\ last.polls[1].applied # <<>>
  /\ invoked # <<>>

\* ------------------------------------------------ C26: the cap on the tables

\* The IDs of a name table are local IDs an IdType holds without wrapping.
IdsFit(by_name) == \A n \in DOMAIN by_name : by_name[n] \in 0..IdTypeMax

\* C26: register_type and register_sender of a new name fail with
\* TooManyMappings when the vector is longer than the cap, and change nothing;
\* every ID they allocate is the index of the pushed element, at least 0 and
\* at most the greatest IdType.
C26_CapAndIdRange ==
  [][/\ (/\ last'.op = "register_type"
         /\ last'.name \notin DOMAIN dispatcher.types_by_name
         /\ Len(dispatcher.types) > MAX_VEC_USIZE) => RegisterAtCap(last'.ret)
     /\ (/\ last'.op = "register_sender"
         /\ last'.name \notin DOMAIN dispatcher.senders_by_name
         /\ Len(dispatcher.senders) > MAX_VEC_USIZE) => RegisterAtCap(last'.ret)
     /\ (last'.op = "register_type" /\ last'.ret.kind = "NewMapping") =>
          (last'.ret.id = Len(dispatcher.types) /\ last'.ret.id \in 0..IdTypeMax)
     /\ (last'.op = "register_sender" /\ last'.ret.kind = "NewMapping") =>
          (last'.ret.id = Len(dispatcher.senders) /\ last'.ret.id \in 0..IdTypeMax)
     /\ IdsFit(dispatcher'.types_by_name) /\ IdsFit(dispatcher'.senders_by_name)
    ]_vars

\* A register_sender of a new name was refused with the senders vector above
\* the cap, the last sender admitted having the ID MAX_VEC_USIZE, and the types
\* vector is above the cap as well.
C26_Witness ==
  /\ last.op = "register_sender" /\ last.ret = Err("TooManyMappings", 0)
  /\ last.name \notin DOMAIN dispatcher.senders_by_name
  /\ Len(dispatcher.senders) = MAX_VEC_USIZE + 1
  /\ dispatcher.senders_by_name["sE"] = MAX_VEC_USIZE
  /\ Len(dispatcher.types) = MAX_VEC_USIZE + 1

\* ------------------------------------- C28: the tables of the TypeDispatcher

\* names is the vector of names by local ID and by_name the map from name to
\* local ID: the IDs are exactly 0..len-1, the map is injective and has one
\* entry per element, and the name at index i maps to i.
Consistent(names, by_name) ==
  /\ {by_name[n] : n \in DOMAIN by_name} = 0..(Len(names) - 1)
  /\ Cardinality(DOMAIN by_name) = Len(names)
  /\ \A m, n \in DOMAIN by_name : by_name[m] = by_name[n] => m = n
  /\ \A i \in 1..Len(names) :
        names[i] \in DOMAIN by_name /\ by_name[names[i]] = i - 1

\* The names of the types, by local ID.
TypeNamesOf(d) == [i \in 1..Len(d.types) |-> d.types[i].name]

\* C28: in every state the type table and the sender table of the dispatcher
\* are consistent (contiguous IDs from 0, injective maps of the size of the
\* vectors, names mapping back to their index), and no step removes a
\* registration or gives a name another ID.
C28_TablesConsistent ==
  [][/\ Consistent(TypeNamesOf(dispatcher), dispatcher.types_by_name)
     /\ Consistent(dispatcher.senders, dispatcher.senders_by_name)
     /\ Consistent(TypeNamesOf(dispatcher'), dispatcher'.types_by_name)
     /\ Consistent(dispatcher'.senders, dispatcher'.senders_by_name)
     /\ IdsStable(dispatcher.types_by_name, dispatcher'.types_by_name)
     /\ IdsStable(dispatcher.senders_by_name, dispatcher'.senders_by_name)
     /\ IsPrefix(TypeNamesOf(dispatcher), TypeNamesOf(dispatcher'))
     /\ IsPrefix(dispatcher.senders, dispatcher'.senders)
    ]_vars

\* A registered type was registered again and found, with user types and
\* user senders in the tables.
C28_Witness ==
  /\ last.op = "register_type" /\ last.ret.tag = "Ok" /\ last.ret.kind = "Found"
  /\ Len(dispatcher.types) >= 6
  /\ Len(dispatcher.senders) >= 3

\* ------------------------------------------------------- C24: wire order

\* The frames of a sequence in front of its first InvalidFrame.
RECURSIVE Decoded(_)
Decoded(frames) ==
  IF frames = <<>> \/ Head(frames) = InvalidFrame THEN <<>>
  ELSE <<Head(frames)>> \o Decoded(Tail(frames))

\* The collections whose handler runs for the frames, in the order of the frames.
RECURSIVE HandledTypes(_, _)
HandledTypes(d, frames) ==
  IF frames = <<>> THEN <<>>
  ELSE (IF Handled(d, Head(frames)) THEN <<Some(Head(frames).message_type)>> ELSE <<>>)
       \o HandledTypes(d, Tail(frames))

\* C24: each poll_endpoint takes frames off the front of the stream only, in
\* the order they arrived, leaving the rest in order behind them, and runs the
\* handlers for the messages among them in that order, each message once; so
\* over any sequence of polls the handlers of a frame run before those of
\* every frame behind it, and no frame is delivered twice.
C24_WireOrder ==
  [][last'.op = "poll_endpoints" =>
       \A k \in 1..Len(last'.polls) :
          LET before == endpoints[last'.polls[k].slot][1]
              after == endpoints'[last'.polls[k].slot][1]
          IN /\ IsSuffix(after.reliable_channel.incoming,
                         before.reliable_channel.incoming)
             /\ [n \in 1..Len(invoked') |-> invoked'[n].coll]
                  = HandledTypes(dispatcher, Decoded(Consumed(before, after)))
             /\ last'.polls[k].ret = Err("HandlerError", 0) =>
                  Len(Consumed(before, after)) > 0]_vars

\* A poll delivered a message of type 1 and then the message of type 0 that
\* arrived behind it, whose handler failed.
C24_Witness ==
  /\ last.op = "poll_endpoints"
  /\ Len(invoked) = 2
  /\ invoked[1].coll = Some(1) /\ invoked[2].coll = Some(0)
  /\ last.ret = Err("HandlerError", 0)

\* ------------------------------------- C27: the queue of system messages

\* C27: the system messages a poll_endpoint enqueues while it reads the frames
\* are applied by the same call in the order enqueued, behind those that
\* waited in the queue: when the call returns, with whatever result, the
\* queue of the endpoint is empty.
C27_QueueDrained ==
  [][last'.op = "poll_endpoints" =>
       \A k \in 1..Len(last'.polls) :
          LET before == endpoints[last'.polls[k].slot][1]
              after == endpoints'[last'.polls[k].slot][1]
          IN SystemFrames(Decoded(Consumed(before, after))) # <<>> =>
               /\ after.system_rx = <<>>
               /\ last'.polls[k].applied =
                    before.system_rx \o SystemFrames(Decoded(Consumed(before, after)))]_vars

\* ------------------------------------------------ C30: the drain terminates

\* C30: from every state of the server, the calls of poll_endpoints a drain
\* repeats come to one that returns something other than Ready(Some(())), so
\* that the drain ends.
C30_DrainTerminates ==
  []<>(last.op = "poll_endpoints" /\ last.ret # Ok("ReadySome", 0))

\* ------------------------------------------------ C21: a full send buffer

\* C21: buffer_generic_message on an endpoint whose send buffer is full fails
\* with SendBufferFull and leaves the endpoint and its channel as they were;
\* with room in the buffer, as after a poll that flushed it, the call succeeds
\* and the message is the last of the buffer.
C21_SendBufferFull ==
  [][(last'.op = "buffer_generic_message"
      /\ endpoints[1][1].reliable_channel.sink = "ok") =>
       IF Len(endpoints[1][1].reliable_channel.outgoing) >= SendCapacity
       THEN last'.ret = Err("SendBufferFull", 0) /\ endpoints' = endpoints
       ELSE /\ last'.ret = Ok("Unit", 0)
            /\ endpoints'[1][1].reliable_channel.outgoing =
                 Append(endpoints[1][1].reliable_channel.outgoing,
                        [msg |-> last'.msg, class |-> last'.class])]_vars

\* ------------------------------- C22: one description per inserted local ID

\* The number of Description frames new_local_id has buffered for a local ID.
DescribedTimes(key) ==
  IF key \in DOMAIN history.described THEN history.described[key] ELSE 0

\* C22: new_local_id never buffers more than one Description frame for a local
\* ID, and when a new_local_id on an endpoint whose sink works returns Ok for a
\* name and local ID that new_local_id inserted into the translation table,
\* exactly one Description frame has been buffered for it: no inserted ID is left without
\* its description, also when the send buffer was full at the first call.
C22_DescribedOnce ==
  /\ \A key \in DOMAIN history.described :
       key \in history.inserted /\ history.described[key] <= 1
  /\ (/\ last.op = "new_local_id"
      /\ last.ret.tag = "Ok"
      /\ endpoints[1][1].reliable_channel.sink = "ok"
      /\ <<last.sender, last.local_id>> \in history.inserted
      /\ find_by_local_id(TableOf(endpoints[1][1], last.sender),
                          last.local_id)[1].name = last.name)
       => DescribedTimes(<<last.sender, last.local_id>>) = 1

\* ------------------------------------- C23: pack_all_descriptions in order

\* The frames `added` are the descriptions of the entries of `table`, one for
\* each entry, of the kind given, all RELIABLE, by rising local ID.
DescribesTable(added, table, kind) ==
  /\ Len(added) = Cardinality(DOMAIN table.entries)
  /\ \A k \in 1..Len(added) :
       /\ added[k].class = RELIABLE
       /\ added[k].msg.kind = kind
       /\ added[k].msg.which \in DOMAIN table.entries
       /\ added[k].msg.name = table.entries[added[k].msg.which].name
  /\ \A j, k \in 1..Len(added) :
       j < k => added[j].msg.which < added[k].msg.which

\* The frames of `after` behind the first Len(before) ones.
AddedTo(before, after) == SubSeq(after, Len(before) + 1, Len(after))

\* C23: when pack_all_descriptions returns Ok, the send buffer is what it was
\* followed by one RELIABLE description for every entry of the sender table,
\* by local ID, and then one for every entry of the type table, by local ID;
\* the translation tables and the rest of the endpoint are as before.
C23_AllDescriptions ==
  [][(last'.op = "pack_all_descriptions" /\ last'.ret.tag = "Ok") =>
       LET before == endpoints[1][1]
           after == endpoints'[1][1]
           added == AddedTo(before.reliable_channel.outgoing,
                            after.reliable_channel.outgoing)
           senders == Cardinality(DOMAIN before.translation.senders.entries)
       IN /\ IsPrefix(before.reliable_channel.outgoing,
                      after.reliable_channel.outgoing)
          /\ Len(added) >= senders
          /\ DescribesTable(SubSeq(added, 1, senders),
                            before.translation.senders, "SenderDescription")
          /\ DescribesTable(SubSeq(added, senders + 1, Len(added)),
                            before.translation.types, "TypeDescription")
          /\ after = [before EXCEPT !.reliable_channel.outgoing =
                                      after.reliable_channel.outgoing]]_vars

\* pack_all_descriptions has returned Ok on an endpoint with a sender and a
\* type in its tables, and the send buffer ends with the description of the
\* type.
C23_Witness ==
  /\ last.op = "pack_all_descriptions"
  /\ last.ret.tag = "Ok"
  /\ DOMAIN endpoints[1][1].translation.senders.entries # {}
  /\ DOMAIN endpoints[1][1].translation.types.entries # {}
  /\ Len(endpoints[1][1].reliable_channel.outgoing) >= 2
  /\ endpoints[1][1].reliable_channel.outgoing[
        Len(endpoints[1][1].reliable_channel.outgoing)].msg.kind = "TypeDescription"

\* ------------------------------------------- C25: lock order, no deadlock

\* The mutex the next step of task t locks, if t is inside an operation.
Requests(t) ==
  IF t \in Pollers /\ pc[t].at = "acceptor" THEN Some(<<"server_tcp", 0>>)
  ELSE IF t \in Pollers /\ pc[t].at = "endpoints" THEN Some(<<"endpoints", 0>>)
  ELSE IF t \in Pollers /\ pc[t].at = "dispatcher" THEN Some(<<"dispatcher", 0>>)
  ELSE IF /\ (t \in Pollers /\ pc[t].at = "loop") \/ (t = "sender" /\ pc[t].at = "pack")
          /\ pc[t].i <= Len(endpoints)
  THEN Some(<<"reliable_channel", endpoints[pc[t].i][1].id>>)
  ELSE None

\* Task t waits for a mutex that another guard holds.
Waiting(t) == Requests(t) # None /\ ~Free(Requests(t)[1])

\* The tasks that hold the mutex.
Holders(mutex) == {t \in Tasks : mutex \in locks[t]}

\* A set of tasks each of which waits for a mutex held inside the set.
Deadlocked(S) ==
  /\ S # {}
  /\ \A t \in S : Waiting(t) /\ Holders(Requests(t)[1]) \cap S # {}

\* C25: a mutex has one holder; no task requests the endpoints mutex while it
\* holds the mutex of a reliable channel; a task outside its operations holds
\* no mutex; and no set of tasks wait for each other.
C25_NoDeadlock ==
  /\ \A t, u \in Tasks : t # u => locks[t] \cap locks[u] = {}
  /\ \A t \in Tasks :
       Requests(t) = Some(<<"endpoints", 0>>) =>
         \A held \in locks[t] : held[1] # "reliable_channel"
  /\ \A t \in Tasks : pc[t].at = "idle" => locks[t] = {}
  /\ \A S \in SUBSET Tasks : ~Deadlocked(S)

\* A poll_endpoints that holds the acceptor's mutex waits for the endpoints,
\* which the sender holds together with the channel of an endpoint, while a
\* handshake task is in flight.
C25_Witness ==
  \E t \in Pollers :
    /\ Requests(t) = Some(<<"endpoints", 0>>)
    /\ Waiting(t)
    /\ <<"server_acceptor", 0>> \in locks[t]
    /\ <<"endpoints", 0>> \in locks["sender"]
    /\ \E held \in locks["sender"] : held[1] = "reliable_channel"
    /\ handshakes > 0

\* ------------------------------------ C29: an error ends the sweep at once

\* The slots are as they were, but for the endpoint in slot i, which is still
\* in its slot.
SameVector(before, after, i) ==
  /\ Len(after) = Len(before)
  /\ after[i] # None
  /\ \A j \in 1..Len(before) : j # i => after[j] = before[j]

\* C29: when the poll_endpoint of the endpoint in slot i returns an error to a
\* poll_endpoints, that step is the return of poll_endpoints with this error:
\* no slot after i was polled, the vector has the same slots with the other
\* endpoints untouched, and the task holds no mutex any more.
C29_ErrorEndsSweep ==
  [][\A t \in Pollers :
       (/\ pc[t].at = "poll"
        /\ pc'[t] # pc[t]
        /\ poll_endpoint(endpoints[pc[t].i][1], dispatcher).ret.tag = "Err") =>
         /\ pc'[t].at = "idle"
         /\ last'.op = "poll_endpoints"
         /\ last'.ret = poll_endpoint(endpoints[pc[t].i][1], dispatcher).ret
         /\ last'.polls # <<>>
         /\ last'.polls[Len(last'.polls)].slot = pc[t].i
         /\ \A k \in 1..Len(last'.polls) : last'.polls[k].slot <= pc[t].i
         /\ SameVector(endpoints, endpoints', pc[t].i)
         /\ locks'[t] = {}]_vars

\* A poll_endpoints has returned the error of the endpoint in slot 1 of two,
\* after polling only that one, and the mutexes it held are free.
C29_Witness ==
  /\ last.op = "poll_endpoints"
  /\ last.ret.tag = "Err"
  /\ Len(endpoints) = 2
  /\ endpoints[2] # None
  /\ Len(last.polls) = 1
  /\ last.polls[1].slot = 1
  /\ Free(<<"server_acceptor", 0>>)
  /\ Free(<<"endpoints", 0>>)
  /\ Free(<<"dispatcher", 0>>)
  /\ Free(<<"reliable_channel", endpoints[1][1].id>>)

\* ---------------------------------- C31: every message on the reliable channel

\* C31: the low_latency_channel of every endpoint is None in every state, and
\* a buffer_generic_message on an endpoint whose sink works never panics in
\* the unimplemented low-latency branch: whatever the class of service, the
\* message is put with its class at the end of the reliable channel's send
\* buffer, or refused because that buffer is full.
C31_ReliableOnly ==
  /\ [](\A i \in 1..Len(endpoints) :
          endpoints[i] # None => endpoints[i][1].low_latency_channel = None)
  /\ [][(last'.op = "buffer_generic_message"
         /\ endpoints[1][1].reliable_channel.sink = "ok") =>
          /\ last'.ret # Panic
          /\ IF Len(endpoints[1][1].reliable_channel.outgoing) < SendCapacity
             THEN /\ last'.ret.tag = "Ok"
                  /\ endpoints'[1][1].reliable_channel.outgoing =
                       Append(endpoints[1][1].reliable_channel.outgoing,
                              [msg |-> last'.msg, class |-> last'.class])
             ELSE last'.ret.tag = "Err" /\ endpoints' = endpoints]_vars

\* A message of class LOW_LATENCY, as the null_tracker server sends it, has
\* been buffered: it is the last of the reliable channel's send buffer.
C31_Witness ==
  /\ last.op = "buffer_generic_message"
  /\ last.class = {"LOW_LATENCY"}
  /\ last.ret.tag = "Ok"
  /\ endpoints[1][1].low_latency_channel = None
  /\ endpoints[1][1].reliable_channel.outgoing # <<>>
  /\ endpoints[1][1].reliable_channel.outgoing[
        Len(endpoints[1][1].reliable_channel.outgoing)] =
          [msg |-> last.msg, class |-> {"LOW_LATENCY"}]

====
